---- MODULE Spec2Model ----
(***************************************************************************)
(* Derived-observable expression engine of EOS:                            *)
(*   eos/utils/expression-observable.{hh,cc}  (ExpressionObservable,       *)
(*   ExpressionObservableEntry) and eos/observable_TEST.cc.                *)
(*                                                                         *)
(* Values are IEEE doubles in the program.  They are modelled as exact     *)
(* rationals [n, d] in lowest terms with d > 0, extended with the IEEE     *)
(* specials +inf = [1,0], -inf = [-1,0] and NaN = [0,0].  Rounding and     *)
(* the sign of zero are not modelled.                                      *)
(***************************************************************************)
EXTENDS Integers, Sequences, FiniteSets, TLC

VARIABLES
    registry,      \* Observables: QualifiedName -> ObservableEntry (or NoEntry)
    parameters,    \* Parameters stores: id -> (name -> value), NoStore when unallocated
    kinematics,    \* Kinematics stores: id -> (name -> value), NoStore when unallocated
    instances,     \* live ExpressionObservable objects: slot -> object (or NoInstance)
    outcome,       \* the last operation: its kind, the failure it raised, what it returned
    given,         \* what the caller was given: a text to insert, the values of a test run
    pc             \* position of ObservableTest::run

vars == <<registry, parameters, kinematics, instances, outcome, given, pc>>

----------------------------------------------------------------------------
(* Bounds of the model *)

MaxInstances == 2      \* ExpressionObservable objects alive at once
MaxStores == 2         \* Parameters stores allocated
MaxKinematics == 4     \* Kinematics stores allocated
MaxValue == 1          \* parameter values are 0 .. MaxValue
MaxTextLen == 3        \* tokens in a text drawn for the parser
MaxLiteral == 3        \* literals of an arithmetic text are 0 .. MaxLiteral
MaxRuns == 3           \* find-mode: args.points is 0 .. MaxRuns
MaxFitPoint == 1       \* find-mode: an optimisation ends at a point 0 .. MaxFitPoint
MaxChiSquare == 2      \* find-mode: the total chi^2 at a point is 0 .. MaxChiSquare

----------------------------------------------------------------------------
(* double arithmetic *)

Abs(x) == IF x < 0 THEN -x ELSE x

Sign(x) == IF x < 0 THEN -1 ELSE IF x = 0 THEN 0 ELSE 1

RECURSIVE Gcd(_, _)
Gcd(a, b) == IF b = 0 THEN a ELSE Gcd(b, a % b)

\* greatest common divisor of |a| and |b|, 1 when both are 0
Common(a, b) == LET g == Gcd(Abs(a), Abs(b)) IN IF g = 0 THEN 1 ELSE g

Rat(n, d) ==
    IF d = 0 THEN [n |-> Sign(n), d |-> 0]
    ELSE LET g == Common(n, d)
             s == Sign(d)
         IN  [n |-> s * (n \div g), d |-> s * (d \div g)]

Num(k) == [n |-> k, d |-> 1]

NaN == [n |-> 0, d |-> 0]

IsFinite(x) == x.d # 0

IsNaN(x) == x.d = 0 /\ x.n = 0

Mul(x, y) ==
    LET g1 == Common(x.n, y.d)
        g2 == Common(y.n, x.d)
    IN  Rat((x.n \div g1) * (y.n \div g2), (x.d \div g2) * (y.d \div g1))

\* 1/y: 1/0 is +inf, 1/inf is 0, 1/NaN is NaN
Recip(y) ==
    IF y.n = 0 THEN (IF y.d = 0 THEN NaN ELSE [n |-> 1, d |-> 0])
    ELSE [n |-> Sign(y.n) * y.d, d |-> Abs(y.n)]

\* a division that raises on a zero divisor instead of returning inf or NaN
Div_raising(x, y) ==
    IF y.n = 0 /\ y.d # 0
    THEN [error |-> "FloatingPointError", what |-> "division by zero"]
    ELSE Mul(x, Recip(y))

\* operator/ on doubles: x/0 is +inf or -inf, 0/0 is NaN
Div(x, y) == Mul(x, Recip(y))

Add(x, y) ==
    IF IsNaN(x) \/ IsNaN(y) THEN NaN
    ELSE IF ~IsFinite(x) /\ ~IsFinite(y) THEN (IF x.n = y.n THEN x ELSE NaN)
    ELSE IF ~IsFinite(x) THEN x
    ELSE IF ~IsFinite(y) THEN y
    ELSE LET g == Common(x.d, y.d)
         IN  Rat(x.n * (y.d \div g) + y.n * (x.d \div g), (x.d \div g) * y.d)

Neg(x) == [n |-> -(x.n), d |-> x.d]

Sub(x, y) == Add(x, Neg(y))

Apply(op, l, r) ==
    CASE op = "+" -> Add(l, r)
      [] op = "-" -> Sub(l, r)
      [] op = "*" -> Mul(l, r)
      [] op = "/" -> Div(l, r)

----------------------------------------------------------------------------
(* eos::exp::Expression: a tagged variant, possibly empty *)

EmptyExpression == [type |-> "empty"]

ConstantExpression(v) == [type |-> "constant", value |-> v]

BinaryExpression(op, l, r) == [type |-> "binary", op |-> op, lhs |-> l, rhs |-> r]

\* unbound leaf: a name with its local kinematics and options overrides
ObservableNameExpression(name, k, o) ==
    [type |-> "name", name |-> name, kin |-> k, opts |-> o]

\* bound leaf: a live observable
ObservableExpression(h) == [type |-> "observable", handle |-> h]

empty(e) == e.type = "empty"

NoOverrides == [x \in {} |-> 0]

----------------------------------------------------------------------------
(* The parser: text is a sequence of tokens *)

Operators == {"+", "-", "*", "/"}

OpToken(o) == [t |-> "op", op |-> o]
NumToken(k) == [t |-> "num", num |-> k]
\* a reference with local kinematics and options overrides
RefTokenWith(name, k, o) == [t |-> "ref", name |-> name, kin |-> k, opts |-> o]
RefToken(name) == RefTokenWith(name, NoOverrides, NoOverrides)
LParen == [t |-> "("]
RParen == [t |-> ")"]

ParseFailure == [ok |-> FALSE]

ParseSuccess(e, rest) == [ok |-> TRUE, expr |-> e, rest |-> rest]

IsOp(ts, ops) == ts # <<>> /\ Head(ts).t = "op" /\ Head(ts).op \in ops

RECURSIVE ParseExpr(_), ParseExprRest(_, _), ParseTerm(_), ParseTermRest(_, _), ParseFactor(_)

\* factor := literal | reference | "(" expr ")"
ParseFactor(ts) ==
    IF ts = <<>> THEN ParseFailure
    ELSE LET h == Head(ts) IN
         CASE h.t = "num" -> ParseSuccess(ConstantExpression(Num(h.num)), Tail(ts))
           [] h.t = "ref" ->
                ParseSuccess(ObservableNameExpression(h.name, h.kin, h.opts), Tail(ts))
           [] h.t = "(" ->
                LET r == ParseExpr(Tail(ts)) IN
                IF r.ok /\ r.rest # <<>> /\ Head(r.rest).t = ")"
                THEN ParseSuccess(r.expr, Tail(r.rest))
                ELSE ParseFailure
           [] OTHER -> ParseFailure

\* term := factor (("*" | "/") factor)*, left associative
ParseTermRest(l, ts) ==
    IF IsOp(ts, {"*", "/"})
    THEN LET f == ParseFactor(Tail(ts)) IN
         IF f.ok THEN ParseTermRest(BinaryExpression(Head(ts).op, l, f.expr), f.rest)
         ELSE ParseFailure
    ELSE ParseSuccess(l, ts)

ParseTerm(ts) ==
    LET f == ParseFactor(ts) IN
    IF f.ok THEN ParseTermRest(f.expr, f.rest) ELSE ParseFailure

\* expr := term (("+" | "-") term)*, left associative
ParseExprRest(l, ts) ==
    IF IsOp(ts, {"+", "-"})
    THEN LET f == ParseTerm(Tail(ts)) IN
         IF f.ok THEN ParseExprRest(BinaryExpression(Head(ts).op, l, f.expr), f.rest)
         ELSE ParseFailure
    ELSE ParseSuccess(l, ts)

ParseExpr(ts) ==
    LET f == ParseTerm(ts) IN
    IF f.ok THEN ParseExprRest(f.expr, f.rest) ELSE ParseFailure

RECURSIVE SkipRepeatedOperators(_)

\* the text without every operator token that directly follows an operator token
SkipRepeatedOperators(ts) ==
    IF Len(ts) < 2 THEN ts
    ELSE IF ts[1].t = "op" /\ ts[2].t = "op"
    THEN SkipRepeatedOperators(<<ts[1]>> \o Tail(Tail(ts)))
    ELSE <<ts[1]>> \o SkipRepeatedOperators(Tail(ts))

\* a parser that ignores an operator directly after an operator
Parse_lenient(ts) ==
    LET r == ParseExpr(SkipRepeatedOperators(ts)) IN
    IF r.ok /\ r.rest = <<>> THEN [ok |-> TRUE, expr |-> r.expr] ELSE ParseFailure

RECURSIVE ParseFlatRest(_, _)

\* expr := factor (operator factor)*, every operator at one level, left associative
ParseFlatRest(l, ts) ==
    IF IsOp(ts, Operators)
    THEN LET f == ParseFactor(Tail(ts)) IN
         IF f.ok THEN ParseFlatRest(BinaryExpression(Head(ts).op, l, f.expr), f.rest)
         ELSE ParseFailure
    ELSE ParseSuccess(l, ts)

\* a parser without precedence
Parse_flat(ts) ==
    LET f == ParseFactor(ts)
        r == IF f.ok THEN ParseFlatRest(f.expr, f.rest) ELSE ParseFailure
    IN  IF r.ok /\ r.rest = <<>> THEN [ok |-> TRUE, expr |-> r.expr] ELSE ParseFailure

\* the whole text must be one expression; anything else is a ParsingError
Parse(ts) ==
    LET r == ParseExpr(ts) IN
    IF r.ok /\ r.rest = <<>> THEN [ok |-> TRUE, expr |-> r.expr] ELSE ParseFailure

----------------------------------------------------------------------------
(* The host's containers and primitive observables *)

ParameterNames == {"mass::mu", "mass::tau"}

KinematicNames == {"s", "s_max", "s_min", "theta"}

\* std::less<std::string> on the kinematic names
NameRank == [x \in KinematicNames |->
    CASE x = "s" -> 1 [] x = "s_max" -> 2 [] x = "s_min" -> 3 [] x = "theta" -> 4]

NameLess(a, b) == NameRank[a] < NameRank[b]

NoStore == [free |-> TRUE]

NoEntry == [kind |-> "none"]

NoInstance == [kind |-> "none"]

Stores == 1 .. MaxStores

KinematicsStores == 1 .. MaxKinematics

Slots == 1 .. MaxInstances

ParameterValues == {Num(v) : v \in 0 .. MaxValue}

\* Parameters::Defaults()
Defaults == [x \in ParameterNames |-> Num(1)]

\* the Kinematics store of the caller ("Kinematics k;")
CallerStore == 1

\* the kinematics the caller builds
CallerKinematics == [x \in KinematicNames |-> IF x = "s_max" THEN Num(2) ELSE Num(1)]

\* Options are finite maps from keys to values
NoOptions == [x \in {} |-> ""]

\* the options a caller passes, and the options an entry forces
CallerOptions == {NoOptions, [l |-> "mu", model |-> "CKM"]}

ForcedOptions == {NoOptions, [l |-> "tau"]}

\* Options::get(key, default)
Get(o, key, default) == IF key \in DOMAIN o THEN o[key] ELSE default

\* operator+ (const Options & lhs, const Options & rhs): rhs wins on conflict
Merge(lhs, rhs) ==
    [x \in DOMAIN lhs \cup DOMAIN rhs |-> IF x \in DOMAIN rhs THEN rhs[x] ELSE lhs[x]]

\* observables every registry provides: name -> declared kinematic variables
\* (differential_branching_ratio(s), integrated_branching_ratio(s_min, s_max)),
\* and an angular observable of the host with the one variable theta
ConcreteKinematics == [x \in {"Lb::dBR", "Lb::BR", "Lb::A_theta"} |->
    CASE x = "Lb::dBR" -> <<"s">>
      [] x = "Lb::BR" -> <<"s_min", "s_max">>
      [] x = "Lb::A_theta" -> <<"theta">>]

ConcreteNames == DOMAIN ConcreteKinematics

\* names an expression observable may be inserted under
ExpressionNames == {"mass::ratio", "mass::scaled"}

ObservableStub(name, p) == [kind |-> "stub", name |-> name, parameters |-> p]

\* fixed holds the kinematic variables the observable's Kinematics has from
\* local overrides instead of from the store k
ConcreteObservable(name, p, k, o) ==
    [kind |-> "concrete", name |-> name, parameters |-> p, kinematics |-> k, options |-> o,
     fixed |-> NoOverrides]

\* the value of the kinematic variable x the observable h reads
KinematicValue(K, h, x) ==
    IF x \in DOMAIN h.fixed THEN h.fixed[x] ELSE K[h.kinematics][x]

ExpressionObservableObject(name, p, k, o, e) ==
    [kind |-> "expression", name |-> name, parameters |-> p, kinematics |-> k,
     options |-> o, expression |-> e]

\* ExpressionObservable::name(), parameters(), kinematics(), options()
ExpressionObservable_name(this) == this.name

ExpressionObservable_parameters(this) == this.parameters

ExpressionObservable_kinematics(this) == this.kinematics

ExpressionObservable_options(this) == this.options

\* the lepton mass the decay reads: p["mass::" + o.get("l", "mu")]
LeptonMass(P, p, o) == P[p][IF Get(o, "l", "mu") = "tau" THEN "mass::tau" ELSE "mass::mu"]

\* stand-ins for the closed-form physics formulas
ConcreteValue(P, K, h) ==
    IF h.name = "Lb::dBR"
    THEN Mul(LeptonMass(P, h.parameters, h.options), KinematicValue(K, h, "s"))
    ELSE IF h.name = "Lb::A_theta"
    THEN Mul(LeptonMass(P, h.parameters, h.options), KinematicValue(K, h, "theta"))
    ELSE Mul(LeptonMass(P, h.parameters, h.options),
             Sub(KinematicValue(K, h, "s_max"), KinematicValue(K, h, "s_min")))

----------------------------------------------------------------------------
(* Exceptions: a thrown failure is a value of its own shape *)

Thrown(error, what) == [error |-> error, what |-> what]

IsThrown(x) == "error" \in DOMAIN x

\* Observable::make found neither an entry nor a parameter of that name
Null == [kind |-> "null"]

----------------------------------------------------------------------------
(* exp::ExpressionEvaluator and ExpressionObservable::evaluate *)

RECURSIVE ExpressionEvaluator(_, _, _), ObservableEvaluate(_, _, _), evaluate(_, _, _)

\* post-order: Constant -> value, BinaryOp -> op applied to both children,
\* bound leaf -> the observable's own evaluate()
ExpressionEvaluator(P, K, e) ==
    CASE e.type = "constant" -> e.value
      [] e.type = "binary" ->
           LET l == ExpressionEvaluator(P, K, e.lhs)
               r == ExpressionEvaluator(P, K, e.rhs)
           IN  IF IsThrown(l) THEN l ELSE IF IsThrown(r) THEN r ELSE Apply(e.op, l, r)
      [] e.type = "observable" -> ObservableEvaluate(P, K, e.handle)
      [] OTHER -> Thrown("InternalError", "visit of an expression that is no bound tree")

\* Observable::evaluate, by dynamic type
ObservableEvaluate(P, K, h) ==
    CASE h.kind = "stub" -> P[h.parameters][h.name]
      [] h.kind = "concrete" -> ConcreteValue(P, K, h)
      [] h.kind = "expression" -> evaluate(P, K, h)

\* an evaluate() that stops at the left operand of the root
evaluate_left_operand(P, K, this) ==
    IF empty(this.expression)
    THEN Thrown("InternalError", "Empty expression encountered in ExpressionObservable::evaluate!")
    ELSE IF this.expression.type = "binary"
    THEN ExpressionEvaluator(P, K, this.expression.lhs)
    ELSE ExpressionEvaluator(P, K, this.expression)

\* ExpressionObservable::evaluate() const
evaluate(P, K, this) ==
    IF empty(this.expression)
    THEN Thrown("InternalError", "Empty expression encountered in ExpressionObservable::evaluate!")
    ELSE ExpressionEvaluator(P, K, this.expression)

----------------------------------------------------------------------------
(* exp::ExpressionMaker, ExpressionObservable's constructor,               *)
(* ExpressionObservableEntry::make and Observable::make.                   *)
(* R is the registry.  path holds the names of the entries whose make() is *)
(* on the call stack: binding is deterministic, so a name met again on the *)
(* path is met again without end.                                          *)

IsExpressionEntry(R, name) == name \in DOMAIN R /\ R[name].kind = "expression"

RECURSIVE WithKinematics(_, _), TreeWithKinematics(_, _)

\* the observable h as resolved under kinematics in which the variables of kin
\* have the values of kin: what h or an observable below it fixes itself stays
WithKinematics(h, kin) ==
    CASE h.kind = "concrete" -> [h EXCEPT !.fixed = Merge(kin, h.fixed)]
      [] h.kind = "expression" ->
           [h EXCEPT !.expression = TreeWithKinematics(h.expression, kin)]
      [] OTHER -> h

TreeWithKinematics(e, kin) ==
    CASE e.type = "binary" ->
           BinaryExpression(e.op, TreeWithKinematics(e.lhs, kin), TreeWithKinematics(e.rhs, kin))
      [] e.type = "observable" -> ObservableExpression(WithKinematics(e.handle, kin))
      [] OTHER -> e

RECURSIVE ExpressionMaker(_, _, _, _, _, _), Observable_make(_, _, _, _, _, _),
          ExpressionObservable(_, _, _, _, _, _, _), make(_, _, _, _, _, _)

\* a binder in whose merged context the ambient kinematics and options win
ExpressionMaker_ambient_wins(R, e, p, k, o, path) ==
    CASE e.type = "constant" -> e
      [] e.type = "binary" ->
           LET l == ExpressionMaker(R, e.lhs, p, k, o, path) IN
           IF IsThrown(l) THEN l
           ELSE LET r == ExpressionMaker(R, e.rhs, p, k, o, path) IN
                IF IsThrown(r) THEN r ELSE BinaryExpression(e.op, l, r)
      [] e.type = "name" ->
           LET h == Observable_make(R, e.name, p, k, Merge(e.opts, o), path) IN
           IF IsThrown(h) THEN h
           ELSE IF h = Null THEN Thrown("UnknownObservableError", e.name)
           ELSE ObservableExpression(h)
      [] e.type = "observable" -> e
      [] OTHER -> Thrown("InternalError", "visit of an empty expression")

\* post-order: constants pass through, operators are rebuilt over bound children,
\* a name is resolved by the registry under the merged context: the ambient
\* parameters, the ambient kinematics and options with the reference's own
\* overrides in place of the ambient values
ExpressionMaker(R, e, p, k, o, path) ==
    CASE e.type = "constant" -> e
      [] e.type = "binary" ->
           LET l == ExpressionMaker(R, e.lhs, p, k, o, path) IN
           IF IsThrown(l) THEN l
           ELSE LET r == ExpressionMaker(R, e.rhs, p, k, o, path) IN
                IF IsThrown(r) THEN r ELSE BinaryExpression(e.op, l, r)
      [] e.type = "name" ->
           LET h == Observable_make(R, e.name, p, k, Merge(o, e.opts), path) IN
           IF IsThrown(h) THEN h
           ELSE IF h = Null THEN Thrown("UnknownObservableError", e.name)
           ELSE ObservableExpression(WithKinematics(h, e.kin))
      [] e.type = "observable" -> e
      [] OTHER -> Thrown("InternalError", "visit of an empty expression")

\* the constructor without its check of expression.empty()
ExpressionObservable_unchecked(R, name, p, k, o, expression, path) ==
    LET bound == ExpressionMaker(R, expression, p, k, o, path) IN
    IF IsThrown(bound) THEN bound
    ELSE ExpressionObservableObject(name, p, k, o, bound)

\* the constructor putting the constant 0 where the binder failed
ExpressionObservable_defaulting(R, name, p, k, o, expression, path) ==
    IF empty(expression)
    THEN Thrown("InternalError", "Empty expression encountered in ExpressionObservable!")
    ELSE LET bound == ExpressionMaker(R, expression, p, k, o, path) IN
         ExpressionObservableObject(name, p, k, o,
            IF IsThrown(bound) THEN ConstantExpression(Num(0)) ELSE bound)

\* the constructor storing the tree it was given instead of the binder's result
ExpressionObservable_storing_argument(R, name, p, k, o, expression, path) ==
    IF empty(expression)
    THEN Thrown("InternalError", "Empty expression encountered in ExpressionObservable!")
    ELSE LET bound == ExpressionMaker(R, expression, p, k, o, path) IN
         IF IsThrown(bound) THEN bound
         ELSE ExpressionObservableObject(name, p, k, o, expression)

\* the constructor leaving _expression empty after the binder ran
ExpressionObservable_dropping_tree(R, name, p, k, o, expression, path) ==
    IF empty(expression)
    THEN Thrown("InternalError", "Empty expression encountered in ExpressionObservable!")
    ELSE LET bound == ExpressionMaker(R, expression, p, k, o, path) IN
         IF IsThrown(bound) THEN bound
         ELSE ExpressionObservableObject(name, p, k, o, EmptyExpression)

\* the constructor noticing that the binder came back to an entry it is binding
\* and failing instead of recursing
ExpressionObservable_detecting_cycles(R, name, p, k, o, expression, path) ==
    IF empty(expression)
    THEN Thrown("InternalError", "Empty expression encountered in ExpressionObservable!")
    ELSE LET bound == ExpressionMaker(R, expression, p, k, o, path) IN
         IF IsThrown(bound)
         THEN IF bound.error = "unbounded recursion"
              THEN Thrown("InternalError", "cyclic reference")
              ELSE bound
         ELSE ExpressionObservableObject(name, p, k, o, bound)

\* ExpressionObservable::ExpressionObservable(name, parameters, kinematics, options, expression)
ExpressionObservable(R, name, p, k, o, expression, path) ==
    IF empty(expression)
    THEN Thrown("InternalError", "Empty expression encountered in ExpressionObservable!")
    ELSE LET bound == ExpressionMaker(R, expression, p, k, o, path) IN
         IF IsThrown(bound) THEN bound
         ELSE ExpressionObservableObject(name, p, k, o, bound)

\* make with the operands of the merge exchanged: _forced_options + options
make_caller_wins(R, this, p, k, o, path) ==
    IF empty(this.expression)
    THEN Thrown("InternalError", "Empty expression encountered in ExpressionObservableEntry::make!")
    ELSE ExpressionObservable(R, this.name, p, k, Merge(this.forced_options, o),
                              this.expression, path)

\* ExpressionObservableEntry::make(parameters, kinematics, options) const
make(R, this, p, k, o, path) ==
    IF empty(this.expression)
    THEN Thrown("InternalError", "Empty expression encountered in ExpressionObservableEntry::make!")
    ELSE ExpressionObservable(R, this.name, p, k, Merge(o, this.forced_options),
                              this.expression, path)

\* Observable::make binding the entry's expression itself, past the entry's make
Observable_make_unforced(R, name, p, k, o, path) ==
    IF name \in path THEN Thrown("unbounded recursion", name)
    ELSE IF IsExpressionEntry(R, name)
    THEN ExpressionObservable(R, name, p, k, o, R[name].expression, path \cup {name})
    ELSE IF name \in ConcreteNames THEN ConcreteObservable(name, p, k, o)
    ELSE IF name \in ParameterNames THEN ObservableStub(name, p)
    ELSE Null

\* Observable::make(name, parameters, kinematics, options)
Observable_make(R, name, p, k, o, path) ==
    IF name \in path THEN Thrown("unbounded recursion", name)
    ELSE IF IsExpressionEntry(R, name) THEN make(R, R[name], p, k, o, path \cup {name})
    ELSE IF name \in ConcreteNames THEN ConcreteObservable(name, p, k, o)
    ELSE IF name \in ParameterNames THEN ObservableStub(name, p)
    ELSE Null

----------------------------------------------------------------------------
(* exp::ExpressionCloner and ExpressionObservable::clone.                  *)
(* Every clone of an observable that has kinematics clones its Kinematics: *)
(* base is the first free Kinematics store, the clones take base, base+1,  *)
(* ... in traversal order.                                                 *)

RECURSIVE KinematicsCloned(_), ObservableKinematicsCloned(_)

\* the Kinematics stores Observable::clone(parameters) copies, in order
ObservableKinematicsCloned(h) ==
    CASE h.kind = "stub" -> <<>>
      [] h.kind = "concrete" -> <<h.kinematics>>
      [] h.kind = "expression" -> <<h.kinematics>> \o KinematicsCloned(h.expression)

\* the Kinematics stores the cloner's traversal of e copies, in order
KinematicsCloned(e) ==
    CASE e.type = "binary" -> KinematicsCloned(e.lhs) \o KinematicsCloned(e.rhs)
      [] e.type = "observable" -> ObservableKinematicsCloned(e.handle)
      [] OTHER -> <<>>

RECURSIVE ExpressionCloner(_, _, _, _, _, _), Observable_clone(_, _, _, _),
          clone_parameters(_, _, _, _)

\* a cloner that rebuilds an operator with its operands exchanged
ExpressionCloner_exchanging(R, e, p, k, o, base) ==
    CASE e.type = "binary" ->
           LET l == ExpressionCloner(R, e.lhs, p, k, o, base) IN
           IF IsThrown(l) THEN l
           ELSE LET r == ExpressionCloner(R, e.rhs, p, k, o,
                                          base + Len(KinematicsCloned(e.lhs))) IN
                IF IsThrown(r) THEN r ELSE BinaryExpression(e.op, r, l)
      [] e.type = "observable" ->
           LET h == Observable_clone(R, e.handle, p, base) IN
           IF IsThrown(h) THEN h ELSE ObservableExpression(h)
      [] OTHER -> e

\* post-order: constants copy, operators are rebuilt, a bound leaf h becomes
\* h.clone(parameters)
ExpressionCloner(R, e, p, k, o, base) ==
    CASE e.type = "binary" ->
           LET l == ExpressionCloner(R, e.lhs, p, k, o, base) IN
           IF IsThrown(l) THEN l
           ELSE LET r == ExpressionCloner(R, e.rhs, p, k, o,
                                          base + Len(KinematicsCloned(e.lhs))) IN
                IF IsThrown(r) THEN r ELSE BinaryExpression(e.op, l, r)
      [] e.type = "observable" ->
           LET h == Observable_clone(R, e.handle, p, base) IN
           IF IsThrown(h) THEN h ELSE ObservableExpression(h)
      [] OTHER -> e

\* Observable::clone(parameters), by dynamic type
Observable_clone(R, h, p, base) ==
    CASE h.kind = "stub" -> ObservableStub(h.name, p)
      [] h.kind = "concrete" ->
           [ConcreteObservable(h.name, p, base, h.options) EXCEPT !.fixed = h.fixed]
      [] h.kind = "expression" -> clone_parameters(R, h, p, base)

\* clone(parameters) handing the cloner _parameters instead of parameters
clone_parameters_stale(R, this, p, base) ==
    LET cloned == ExpressionCloner(R, this.expression, this.parameters, base, this.options,
                                   base + 1) IN
    IF IsThrown(cloned) THEN cloned
    ELSE ExpressionObservable(R, this.name, p, base, this.options, cloned, {})

\* clone(parameters) constructing the clone with _parameters: the tree is rebound
\* to parameters, the object reports the original's
clone_parameters_own_context(R, this, p, base) ==
    LET cloned == ExpressionCloner(R, this.expression, p, base, this.options, base + 1) IN
    IF IsThrown(cloned) THEN cloned
    ELSE ExpressionObservable(R, this.name, this.parameters, base, this.options, cloned, {})

\* ExpressionObservable::clone(const Parameters & parameters) const;
\* base is the store _kinematics.clone() returns
clone_parameters(R, this, p, base) ==
    LET cloned == ExpressionCloner(R, this.expression, p, base, this.options, base + 1) IN
    IF IsThrown(cloned) THEN cloned
    ELSE ExpressionObservable(R, this.name, p, base, this.options, cloned, {})

\* clone() keeping _parameters and _kinematics instead of their clones
clone_shared(R, this, p, base) ==
    LET cloned == ExpressionCloner(R, this.expression, this.parameters, this.kinematics,
                                   this.options, base + 1) IN
    IF IsThrown(cloned) THEN cloned
    ELSE ExpressionObservable(R, this.name, this.parameters, this.kinematics, this.options,
                              cloned, {})

\* ExpressionObservable::clone() const;
\* p is the store _parameters.clone() returns, base the one _kinematics.clone() returns
clone(R, this, p, base) ==
    LET cloned == ExpressionCloner(R, this.expression, p, base, this.options, base + 1) IN
    IF IsThrown(cloned) THEN cloned
    ELSE ExpressionObservable(R, this.name, p, base, this.options, cloned, {})

----------------------------------------------------------------------------
(* exp::ExpressionKinematicReader and ExpressionObservableEntry *)

\* the kinematic variables the entry registered under name declares
KinematicVariables(R, name) ==
    IF IsExpressionEntry(R, name)
    THEN {R[name].kinematics_names[i] : i \in DOMAIN R[name].kinematics_names}
    ELSE IF name \in ConcreteNames
    THEN {ConcreteKinematics[name][i] : i \in DOMAIN ConcreteKinematics[name]}
    ELSE {}

RECURSIVE ExpressionKinematicReader(_, _)

\* post-order: a constant contributes nothing, an operator the union of its
\* children, a reference the free kinematic variables of the observable it
\* names except those it fixes locally
ExpressionKinematicReader(R, e) ==
    CASE e.type = "binary" ->
           ExpressionKinematicReader(R, e.lhs) \cup ExpressionKinematicReader(R, e.rhs)
      [] e.type = "name" -> KinematicVariables(R, e.name) \ DOMAIN e.kin
      [] OTHER -> {}

RECURSIVE Ascending(_)

\* iteration of a std::set<std::string> from begin() to end()
Ascending(S) ==
    IF S = {} THEN <<>>
    ELSE LET m == CHOOSE x \in S : \A y \in S : ~NameLess(y, x)
         IN  <<m>> \o Ascending(S \ {m})

RECURSIVE TraversalOrder(_, _)

\* the kinematic variables in the order the traversal meets them, repeats included
TraversalOrder(R, e) ==
    CASE e.type = "binary" -> TraversalOrder(R, e.lhs) \o TraversalOrder(R, e.rhs)
      [] e.type = "name" ->
           IF IsExpressionEntry(R, e.name) THEN R[e.name].kinematics_names
           ELSE IF e.name \in ConcreteNames THEN ConcreteKinematics[e.name]
           ELSE <<>>
      [] OTHER -> <<>>

\* the constructor filling _kinematics_names from a list instead of a std::set
ExpressionObservableEntry_unsorted(R, name, latex, expression, forced_options) ==
    IF empty(expression)
    THEN Thrown("InternalError", "Empty expression encountered in ExpressionObservableEntry!")
    ELSE [kind |-> "expression", name |-> name, latex |-> latex,
          expression |-> expression, forced_options |-> forced_options,
          kinematics_names |-> TraversalOrder(R, expression)]

\* the constructor running the collector on the left operand of the root only
ExpressionObservableEntry_left_names(R, name, latex, expression, forced_options) ==
    IF empty(expression)
    THEN Thrown("InternalError", "Empty expression encountered in ExpressionObservableEntry!")
    ELSE [kind |-> "expression", name |-> name, latex |-> latex,
          expression |-> expression, forced_options |-> forced_options,
          kinematics_names |->
             Ascending(ExpressionKinematicReader(R,
                IF expression.type = "binary" THEN expression.lhs ELSE expression))]

\* ExpressionObservableEntry::ExpressionObservableEntry(name, latex, unit, expression,
\* forced_options)
ExpressionObservableEntry(R, name, latex, expression, forced_options) ==
    IF empty(expression)
    THEN Thrown("InternalError", "Empty expression encountered in ExpressionObservableEntry!")
    ELSE [kind |-> "expression", name |-> name, latex |-> latex,
          expression |-> expression, forced_options |-> forced_options,
          kinematics_names |-> Ascending(ExpressionKinematicReader(R, expression))]

\* the range [begin_kinematic_variables(), end_kinematic_variables())
kinematic_variables(this) == this.kinematics_names

\* ExpressionObservableEntry::insert(std::ostream & os) const: what it writes
insert_stream(this) == "    type: expression observable"

----------------------------------------------------------------------------
(* The texts a caller inserts *)

Ref(name) == RefToken(name)

RatioText == <<Ref("mass::mu"), OpToken("/"), Ref("mass::tau")>>

\* "<<mass::mu>> /* <<mass::tau>>"
BadRatioText == <<Ref("mass::mu"), OpToken("/"), OpToken("*"), Ref("mass::tau")>>

DecayText == <<Ref("Lb::BR"), OpToken("/"), Ref("Lb::dBR")>>

ScaledText == <<Ref("mass::ratio"), OpToken("*"), NumToken(2)>>

CyclicText == <<Ref("mass::scaled"), OpToken("+"), NumToken(1)>>

\* "<<Lb::dBR>> * <<Lb::dBR>>": one name twice
SquareText == <<Ref("Lb::dBR"), OpToken("*"), Ref("Lb::dBR")>>

\* the observables a caller defines: name, forced options, expression text
Definition(name, forced_options, input) ==
    [name |-> name, forced_options |-> forced_options, input |-> input]

Definitions ==
    {Definition("mass::ratio", NoOptions, BadRatioText),
     Definition("mass::ratio", NoOptions, RatioText),
     Definition("mass::ratio", [l |-> "tau"], RatioText),
     Definition("mass::ratio", [l |-> "tau"], DecayText),
     Definition("mass::ratio", NoOptions, SquareText),
     Definition("mass::scaled", NoOptions, BadRatioText),
     Definition("mass::scaled", NoOptions, ScaledText),
     Definition("mass::scaled", [l |-> "tau"], CyclicText)}

----------------------------------------------------------------------------
(* State *)

Allocated(table) == {s \in DOMAIN table : table[s] # NoStore}

\* Parameters::clone(), Kinematics::clone(), Parameters::Defaults(): the next store
NextFree(table) == Cardinality(Allocated(table)) + 1

Live == {i \in Slots : instances[i].kind = "expression"}

FreeSlot == CHOOSE i \in Slots : i \notin Live /\ \A j \in Slots : j < i => j \in Live

Registered == {n \in ExpressionNames : registry[n].kind = "expression"}

Outcome(op, error, result) == [op |-> op, error |-> error, result |-> result]

Returned(op, result) == Outcome(op, "none", result)

Failed(op, x) == Outcome(op, x.error, x.what)

\* the last call returned normally and what it made is in the state
Done == Returned("done", "nothing")

RECURSIVE Underlying(_), ObservableUnderlying(_)

\* the Parameters stores the leaves of a bound tree read
Underlying(e) ==
    CASE e.type = "binary" -> Underlying(e.lhs) \cup Underlying(e.rhs)
      [] e.type = "observable" -> ObservableUnderlying(e.handle)
      [] OTHER -> {}

ObservableUnderlying(h) ==
    IF h.kind = "expression" THEN Underlying(h.expression) ELSE {h.parameters}

Init ==
    /\ registry = [n \in ExpressionNames |-> NoEntry]
    /\ parameters = [s \in Stores |-> IF s = 1 THEN Defaults ELSE NoStore]
    /\ kinematics = [s \in KinematicsStores |-> IF s = CallerStore THEN CallerKinematics ELSE NoStore]
    /\ instances = [i \in Slots |-> NoInstance]
    /\ outcome = Done
    /\ given = <<>>
    /\ pc = "caller"

----------------------------------------------------------------------------
(* Operations of the caller *)

\* Parameters::Defaults(): a fresh parameter set
NewParameters ==
    /\ NextFree(parameters) \in Stores
    /\ parameters' = [parameters EXCEPT ![NextFree(parameters)] = Defaults]
    /\ outcome' = Done
    /\ UNCHANGED <<registry, kinematics, instances, given, pc>>

\* p[name] = v
SetParameter(p, name, v) ==
    /\ p \in Allocated(parameters)
    /\ parameters[p][name] # v
    /\ parameters' = [parameters EXCEPT ![p][name] = v]
    /\ outcome' = Done
    /\ UNCHANGED <<registry, kinematics, instances, given, pc>>

\* insert registering the name before it parses the text
Observables_insert_eager(R, name, latex, forced_options, input) ==
    LET r == Parse(input)
        placeholder == [kind |-> "expression", name |-> name, latex |-> latex,
                        expression |-> EmptyExpression, forced_options |-> forced_options,
                        kinematics_names |-> <<>>]
    IN  IF ~r.ok THEN [registry |-> [R EXCEPT ![name] = placeholder],
                       thrown |-> Thrown("ParsingError", name)]
        ELSE LET entry == ExpressionObservableEntry(R, name, latex, r.expr, forced_options) IN
             IF IsThrown(entry) THEN [registry |-> R, thrown |-> entry]
             ELSE [registry |-> [R EXCEPT ![name] = entry], thrown |-> Thrown("none", name)]

\* Observables::insert(name, latex, forced_options, input): parse, build the entry,
\* register it; a failure of either step leaves the registry as it was
Observables_insert(R, name, latex, forced_options, input) ==
    LET r == Parse(input) IN
    IF ~r.ok THEN [registry |-> R, thrown |-> Thrown("ParsingError", name)]
    ELSE LET entry == ExpressionObservableEntry(R, name, latex, r.expr, forced_options) IN
         IF IsThrown(entry) THEN [registry |-> R, thrown |-> entry]
         ELSE [registry |-> [R EXCEPT ![name] = entry], thrown |-> Thrown("none", name)]

Insert(name, forced_options, input) ==
    /\ name \notin Registered
    /\ LET r == Observables_insert(registry, name, "m_r", forced_options, input) IN
       /\ registry' = r.registry
       /\ outcome' = IF r.thrown.error = "none" THEN Done ELSE Failed("insert", r.thrown)
    /\ UNCHANGED <<parameters, kinematics, instances, given, pc>>

\* make collecting the kinematic names of the entry again
Make_recollecting(name, p, k, o) ==
    /\ name \in Registered
    /\ p \in Allocated(parameters)
    /\ Live # Slots
    /\ LET r == make(registry, registry[name], p, k, o, {name}) IN
       IF IsThrown(r)
       THEN /\ outcome' = Failed("make", r)
            /\ UNCHANGED instances
       ELSE /\ instances' = [instances EXCEPT ![FreeSlot] = r]
            /\ outcome' = Done
    /\ registry' = [registry EXCEPT ![name].kinematics_names =
                       Ascending(ExpressionKinematicReader(registry, registry[name].expression))]
    /\ UNCHANGED <<parameters, kinematics, given, pc>>

\* observables[name]->make(p, k, o)
Make(name, p, k, o) ==
    /\ name \in Registered
    /\ p \in Allocated(parameters)
    /\ Live # Slots
    /\ LET r == make(registry, registry[name], p, k, o, {name}) IN
       IF IsThrown(r)
       THEN /\ outcome' = Failed("make", r)
            /\ UNCHANGED instances
       ELSE /\ instances' = [instances EXCEPT ![FreeSlot] = r]
            /\ outcome' = Done
    /\ UNCHANGED <<registry, parameters, kinematics, given, pc>>

\* Observable::make(name, p, k, o)
ObservableMake(name, p, k, o) ==
    /\ p \in Allocated(parameters)
    /\ Live # Slots
    /\ LET r == Observable_make(registry, name, p, k, o, {}) IN
       IF IsThrown(r)
       THEN /\ outcome' = Failed("Observable::make", r)
            /\ UNCHANGED instances
       ELSE IF r = Null
       THEN /\ outcome' = Done
            /\ UNCHANGED instances
       ELSE /\ instances' = [instances EXCEPT ![FreeSlot] = r]
            /\ outcome' = Returned("Observable::make", "nothing")
    /\ UNCHANGED <<registry, parameters, kinematics, given, pc>>

\* evaluate() moving the bound tree out of the observable
Evaluate_consuming(i) ==
    /\ i \in Live
    /\ instances' = [instances EXCEPT ![i].expression = EmptyExpression]
    /\ outcome' = Returned("evaluate", "nothing")
    /\ UNCHANGED <<registry, parameters, kinematics, given, pc>>

\* instances[i]->evaluate()
Evaluate(i) ==
    /\ i \in Live
    /\ LET v == evaluate(parameters, kinematics, instances[i]) IN
       outcome' = IF IsThrown(v) THEN Failed("evaluate", v) ELSE Returned("evaluate", "nothing")
    /\ UNCHANGED <<registry, parameters, kinematics, instances, given, pc>>

\* the Kinematics table after the clones of one clone() call: the first copies
\* this._kinematics, the others the stores the leaves' clones copy
KinematicsAfterClone(this) ==
    LET base == NextFree(kinematics)
        srcs == <<this.kinematics>> \o KinematicsCloned(this.expression)
    IN  [s \in KinematicsStores |->
            IF s >= base /\ s < base + Len(srcs) THEN kinematics[srcs[s - base + 1]]
            ELSE kinematics[s]]

CanCloneKinematics(this) ==
    NextFree(kinematics) + Len(KinematicsCloned(this.expression)) \in KinematicsStores

\* instances[i]->clone()
Clone(i) ==
    /\ i \in Live
    /\ Live # Slots
    /\ NextFree(parameters) \in Stores
    /\ CanCloneKinematics(instances[i])
    /\ LET this == instances[i]
           p == NextFree(parameters)
           r == clone(registry, this, p, NextFree(kinematics))
       IN  /\ parameters' = [parameters EXCEPT ![p] = parameters[this.parameters]]
           /\ kinematics' = KinematicsAfterClone(this)
           /\ IF IsThrown(r)
              THEN /\ outcome' = Failed("clone", r)
                   /\ UNCHANGED instances
              ELSE /\ instances' = [instances EXCEPT ![FreeSlot] = r]
                   /\ outcome' = Done
    /\ UNCHANGED <<registry, given, pc>>

\* instances[i]->clone(p)
CloneParameters(i, p) ==
    /\ i \in Live
    /\ Live # Slots
    /\ p \in Allocated(parameters)
    /\ CanCloneKinematics(instances[i])
    /\ LET this == instances[i]
           r == clone_parameters(registry, this, p, NextFree(kinematics))
       IN  /\ kinematics' = KinematicsAfterClone(this)
           /\ IF IsThrown(r)
              THEN /\ outcome' = Failed("clone(parameters)", r)
                   /\ UNCHANGED instances
              ELSE /\ instances' = [instances EXCEPT ![FreeSlot] = r]
                   /\ outcome' = Returned("clone(parameters)", "nothing")
    /\ UNCHANGED <<registry, parameters, given, pc>>

\* iteration from begin_kinematic_variables() to end_kinematic_variables()
ListKinematicVariables(name) ==
    /\ name \in Registered
    /\ outcome' = Returned("kinematic_variables", kinematic_variables(registry[name]))
    /\ UNCHANGED <<registry, parameters, kinematics, instances, given, pc>>

\* observables[name]->insert(os)
Describe(name) ==
    /\ name \in Registered
    /\ outcome' = Returned("insert(stream)", insert_stream(registry[name]))
    /\ UNCHANGED <<registry, parameters, kinematics, instances, given, pc>>

\* the expressions a caller hands to the constructors directly: the parser never
\* returns an empty tree, every other tree reaches the constructors through
\* Observables::insert and make
DirectExpressions == {EmptyExpression}

\* new ExpressionObservable(name, p, k, o, e) by a caller
ConstructObservable(name, p, k, o, e) ==
    /\ p \in Allocated(parameters)
    /\ Live # Slots
    /\ LET r == ExpressionObservable(registry, name, p, k, o, e, {}) IN
       IF IsThrown(r)
       THEN /\ outcome' = Failed("ExpressionObservable", r)
            /\ UNCHANGED instances
       ELSE /\ instances' = [instances EXCEPT ![FreeSlot] = r]
            /\ outcome' = Done
    /\ UNCHANGED <<registry, parameters, kinematics, given, pc>>

\* new ExpressionObservableEntry(name, latex, unit, e, forced_options) by a caller
ConstructEntry(name, forced_options, e) ==
    /\ LET r == ExpressionObservableEntry(registry, name, "m_r", e, forced_options) IN
       outcome' = IF IsThrown(r) THEN Failed("ExpressionObservableEntry", r)
                  ELSE Returned("ExpressionObservableEntry", r)
    /\ UNCHANGED <<registry, parameters, kinematics, instances, given, pc>>

Next ==
    \/ NewParameters
    \/ \E p \in Stores, name \in ParameterNames, v \in ParameterValues : SetParameter(p, name, v)
    \/ \E d \in Definitions : Insert(d.name, d.forced_options, d.input)
    \/ \E name \in ExpressionNames, p \in Stores, k \in {CallerStore}, o \in CallerOptions :
          Make(name, p, k, o)
    \/ \E name \in ExpressionNames, p \in Stores, k \in {CallerStore}, o \in CallerOptions :
          ObservableMake(name, p, k, o)
    \/ \E i \in Slots : Evaluate(i)
    \/ \E i \in Slots : Clone(i)
    \/ \E i \in Slots, p \in Stores : CloneParameters(i, p)
    \/ \E name \in ExpressionNames : ListKinematicVariables(name)
    \/ \E name \in ExpressionNames : Describe(name)
    \/ \E name \in ExpressionNames, p \in Stores, k \in {CallerStore}, o \in CallerOptions,
          e \in DirectExpressions : ConstructObservable(name, p, k, o, e)
    \/ \E name \in ExpressionNames, f \in ForcedOptions, e \in DirectExpressions :
          ConstructEntry(name, f, e)

Spec == Init /\ [][Next]_vars

----------------------------------------------------------------------------
(* Loading one definition: Observables::insert on any text *)

\* the tokens a text is made of
Symbols ==
    {OpToken(o) : o \in Operators}
    \cup {LParen, RParen, NumToken(2)}
    \cup {RefToken(n) : n \in {"mass::mu", "Lb::dBR", "Lb::BR", "Lb::A_theta", "mass::ratio"}}

RECURSIVE TextsOfLength(_)

TextsOfLength(n) ==
    IF n = 0 THEN {<<>>}
    ELSE {Append(t, x) : t \in TextsOfLength(n - 1), x \in Symbols}

\* every text of at most MaxTextLen tokens, and the malformed text of the test
Texts == UNION {TextsOfLength(n) : n \in 0..MaxTextLen} \cup {BadRatioText}

InitInsert ==
    /\ registry = [n \in ExpressionNames |-> NoEntry]
    /\ parameters = [s \in Stores |-> IF s = 1 THEN Defaults ELSE NoStore]
    /\ kinematics = [s \in KinematicsStores |-> IF s = CallerStore THEN CallerKinematics ELSE NoStore]
    /\ instances = [i \in Slots |-> NoInstance]
    /\ outcome = Done
    /\ given \in Texts
    /\ pc = "loader"

NextInsert ==
    \/ \E name \in ExpressionNames, forced_options \in ForcedOptions :
          Insert(name, forced_options, given)
    \/ \E name \in ExpressionNames : ListKinematicVariables(name)

SpecInsert == InitInsert /\ [][NextInsert]_vars

----------------------------------------------------------------------------
(* ObservableTest::run *)

\* p["mass::mu"] = 0.105658
MuMass == Rat(105658, 1000000)

\* p["mass::tau"] = 1.77682
TauMass == Rat(177682, 100000)

\* the values a run sets the two masses to
TestValues == {Num(v) : v \in 0..(MaxValue + 1)}

\* the runs: an operator between <<mass::mu>> and <<mass::tau>> and the two masses
Runs ==
    [op : Operators, mu : TestValues, tau : TestValues]
    \cup {[op |-> "/", mu |-> MuMass, tau |-> TauMass]}

TestText == <<Ref("mass::mu"), OpToken(given.op), Ref("mass::tau")>>

InitTest ==
    /\ registry = [n \in ExpressionNames |-> NoEntry]
    /\ parameters = [s \in Stores |-> NoStore]
    /\ kinematics = [s \in KinematicsStores |-> NoStore]
    /\ instances = [i \in Slots |-> NoInstance]
    /\ outcome = Done
    /\ given \in Runs
    /\ pc = "insert malformed"

\* TEST_CHECK_THROWS(ParsingError, Observables().insert(..., "<<mass::mu>> /* <<mass::tau>>"))
TestInsertMalformed ==
    /\ pc = "insert malformed"
    /\ LET r == Observables_insert(registry, "mass::ratio", "m_r", NoOptions, BadRatioText) IN
       /\ registry' = r.registry
       /\ outcome' = IF r.thrown.error = "none" THEN Done ELSE Failed("insert", r.thrown)
       /\ pc' = IF r.thrown.error = "ParsingError" THEN "insert" ELSE "failed"
    /\ UNCHANGED <<parameters, kinematics, instances, given>>

\* Observables().insert("mass::ratio", R"(m_r)", Options(), "<<mass::mu>> / <<mass::tau>>")
TestInsert ==
    /\ pc = "insert"
    /\ LET r == Observables_insert(registry, "mass::ratio", "m_r", NoOptions, TestText) IN
       /\ registry' = r.registry
       /\ outcome' = IF r.thrown.error = "none" THEN Done ELSE Failed("insert", r.thrown)
       /\ pc' = IF r.thrown.error = "none" THEN "defaults" ELSE "failed"
    /\ UNCHANGED <<parameters, kinematics, instances, given>>

\* Parameters p = Parameters::Defaults(); Kinematics k; Options o;
TestDefaults ==
    /\ pc = "defaults"
    /\ parameters' = [parameters EXCEPT ![1] = Defaults]
    /\ kinematics' = [kinematics EXCEPT ![CallerStore] = CallerKinematics]
    /\ outcome' = Done
    /\ pc' = "set mu"
    /\ UNCHANGED <<registry, instances, given>>

\* p["mass::mu"] = ...
TestSetMu ==
    /\ pc = "set mu"
    /\ parameters' = [parameters EXCEPT ![1]["mass::mu"] = given.mu]
    /\ pc' = "set tau"
    /\ UNCHANGED <<registry, kinematics, instances, outcome, given>>

\* p["mass::tau"] = ...
TestSetTau ==
    /\ pc = "set tau"
    /\ parameters' = [parameters EXCEPT ![1]["mass::tau"] = given.tau]
    /\ pc' = "make"
    /\ UNCHANGED <<registry, kinematics, instances, outcome, given>>

\* auto obs = Observables()["mass::ratio"]->make(p, k, o); TEST_CHECK(obs)
TestMake ==
    /\ pc = "make"
    /\ LET r == make(registry, registry["mass::ratio"], 1, CallerStore, NoOptions, {"mass::ratio"}) IN
       IF IsThrown(r) \/ r = Null
       THEN /\ outcome' = IF r = Null THEN Returned("make", "null") ELSE Failed("make", r)
            /\ pc' = "failed"
            /\ UNCHANGED instances
       ELSE /\ instances' = [instances EXCEPT ![1] = r]
            /\ outcome' = Done
            /\ pc' = "evaluate"
    /\ UNCHANGED <<registry, parameters, kinematics, given>>

\* obs->evaluate()
TestEvaluate ==
    /\ pc = "evaluate"
    /\ LET r == evaluate(parameters, kinematics, instances[1]) IN
       /\ outcome' = IF IsThrown(r) THEN Failed("evaluate", r) ELSE Returned("evaluate", r)
       /\ pc' = IF IsThrown(r) THEN "failed" ELSE "Observable::make"
    /\ UNCHANGED <<registry, parameters, kinematics, instances, given>>

\* auto obs2 = Observable::make("mass::ratio", p, k, o); TEST_CHECK(obs2)
TestObservableMake ==
    /\ pc = "Observable::make"
    /\ LET r == Observable_make(registry, "mass::ratio", 1, CallerStore, NoOptions, {}) IN
       IF IsThrown(r) \/ r = Null
       THEN /\ outcome' = IF r = Null THEN Returned("Observable::make", "null")
                                     ELSE Failed("Observable::make", r)
            /\ pc' = "failed"
            /\ UNCHANGED instances
       ELSE /\ instances' = [instances EXCEPT ![2] = r]
            /\ pc' = "evaluate again"
            /\ UNCHANGED outcome
    /\ UNCHANGED <<registry, parameters, kinematics, given>>

\* obs2->evaluate()
TestEvaluateAgain ==
    /\ pc = "evaluate again"
    /\ LET r == evaluate(parameters, kinematics, instances[2]) IN
       /\ pc' = IF IsThrown(r) \/ r # outcome.result THEN "failed" ELSE "passed"
    /\ UNCHANGED <<registry, parameters, kinematics, instances, outcome, given>>

NextTest ==
    \/ TestInsertMalformed
    \/ TestInsert
    \/ TestDefaults
    \/ TestSetMu
    \/ TestSetTau
    \/ TestMake
    \/ TestEvaluate
    \/ TestObservableMake
    \/ TestEvaluateAgain

SpecTest == InitTest /\ [][NextTest]_vars

----------------------------------------------------------------------------
(* Arithmetic texts: "a op1 b op2 c" inserted, made and evaluated *)

Literals == 0..MaxLiteral

ArithmeticText ==
    IF "text" \in DOMAIN given THEN given.text
    ELSE <<NumToken(given.a), OpToken(given.op1), NumToken(given.b), OpToken(given.op2),
           NumToken(given.c)>>

InitArithmetic ==
    /\ registry = [n \in ExpressionNames |-> NoEntry]
    /\ parameters = [s \in Stores |-> IF s = 1 THEN Defaults ELSE NoStore]
    /\ kinematics = [s \in KinematicsStores |-> IF s = CallerStore THEN CallerKinematics ELSE NoStore]
    /\ instances = [i \in Slots |-> NoInstance]
    /\ outcome = Done
    /\ given \in [a : Literals, op1 : Operators, b : Literals, op2 : Operators, c : Literals]
    /\ pc = "insert"

\* Observables().insert("mass::ratio", "m_r", Options(), "a op1 b op2 c")
ArithmeticInsert ==
    /\ pc = "insert"
    /\ LET r == Observables_insert(registry, "mass::ratio", "m_r", NoOptions, ArithmeticText) IN
       /\ registry' = r.registry
       /\ outcome' = IF r.thrown.error = "none" THEN Done ELSE Failed("insert", r.thrown)
       /\ pc' = IF r.thrown.error = "none" THEN "make" ELSE "failed"
    /\ UNCHANGED <<parameters, kinematics, instances, given>>

\* observables["mass::ratio"]->make(p, k, o)
ArithmeticMake ==
    /\ pc = "make"
    /\ LET r == make(registry, registry["mass::ratio"], 1, CallerStore, NoOptions, {"mass::ratio"}) IN
       IF IsThrown(r)
       THEN /\ outcome' = Failed("make", r)
            /\ pc' = "failed"
            /\ UNCHANGED instances
       ELSE /\ instances' = [instances EXCEPT ![1] = r]
            /\ outcome' = Done
            /\ pc' = "evaluate"
    /\ UNCHANGED <<registry, parameters, kinematics, given>>

\* ->evaluate()
ArithmeticEvaluate ==
    /\ pc = "evaluate"
    /\ LET r == evaluate(parameters, kinematics, instances[1]) IN
       /\ outcome' = IF IsThrown(r) THEN Failed("evaluate", r) ELSE Returned("evaluate", r)
       /\ pc' = IF IsThrown(r) THEN "failed" ELSE "evaluated"
    /\ UNCHANGED <<registry, parameters, kinematics, instances, given>>

NextArithmetic ==
    \/ ArithmeticInsert
    \/ ArithmeticMake
    \/ ArithmeticEvaluate

SpecArithmetic == InitArithmetic /\ [][NextArithmetic]_vars

\* texts with a division: "a / b op c" and "a op (b / c)"
InitDivision ==
    /\ registry = [n \in ExpressionNames |-> NoEntry]
    /\ parameters = [s \in Stores |-> IF s = 1 THEN Defaults ELSE NoStore]
    /\ kinematics = [s \in KinematicsStores |-> IF s = CallerStore THEN CallerKinematics ELSE NoStore]
    /\ instances = [i \in Slots |-> NoInstance]
    /\ outcome = Done
    /\ given \in [text :
          {<<NumToken(a), OpToken("/"), NumToken(b), OpToken(o), NumToken(c)>> :
              a \in Literals, b \in Literals, c \in Literals, o \in Operators}
          \cup {<<NumToken(a), OpToken(o), LParen, NumToken(b), OpToken("/"), NumToken(c),
                  RParen>> :
              a \in Literals, b \in Literals, c \in Literals, o \in Operators}]
    /\ pc = "insert"

SpecDivision == InitDivision /\ [][NextArithmetic]_vars

----------------------------------------------------------------------------
(* Registries of entries that refer to each other *)

\* each entry is "<<x>>" or "<<x>> + <<y>>" over the names below
InitCycle ==
    /\ registry = [n \in ExpressionNames |-> NoEntry]
    /\ parameters = [s \in Stores |-> IF s = 1 THEN Defaults ELSE NoStore]
    /\ kinematics = [s \in KinematicsStores |-> IF s = CallerStore THEN CallerKinematics ELSE NoStore]
    /\ instances = [i \in Slots |-> NoInstance]
    /\ outcome = Done
    /\ LET names == {"mass::mu", "mass::ratio", "mass::scaled"} IN
       given \in [ExpressionNames ->
                     {<<Ref(x)>> : x \in names}
                     \cup {<<Ref(x), OpToken("+"), Ref(y)>> : x \in names, y \in names}]
    /\ pc = "loader"

NextCycle ==
    \/ \E name \in ExpressionNames : Insert(name, NoOptions, given[name])
    \/ \E name \in ExpressionNames : Make(name, 1, CallerStore, NoOptions)

SpecCycle == InitCycle /\ [][NextCycle]_vars

----------------------------------------------------------------------------
(* A reference with local overrides: "<<target;opts>>[kin]" inserted, made *)
(* and evaluated                                                            *)

\* every assignment of values of V to some of the keys of S
PartialMaps(S, V) == UNION {[T -> V] : T \in SUBSET S}

InitOverride ==
    /\ registry = [n \in ExpressionNames |-> NoEntry]
    /\ parameters = [s \in Stores |-> IF s = 1 THEN Defaults ELSE NoStore]
    /\ kinematics = [s \in KinematicsStores |-> IF s = CallerStore THEN CallerKinematics ELSE NoStore]
    /\ instances = [i \in Slots |-> NoInstance]
    /\ outcome = Done
    /\ given \in [target : ConcreteNames,
                   kin : PartialMaps(KinematicNames, {Num(0), Num(3)}),
                   opts : {x \in PartialMaps({"l", "model"}, {"mu", "tau", "SM"}) :
                              /\ "l" \in DOMAIN x => x["l"] \in {"mu", "tau"}
                              /\ "model" \in DOMAIN x => x["model"] = "SM"},
                   options : CallerOptions, forced_options : ForcedOptions]
    /\ pc = "insert"

\* Observables().insert("mass::ratio", "m_r", forced_options, "<<target;opts>>[kin]")
OverrideInsert ==
    /\ pc = "insert"
    /\ LET r == Observables_insert(registry, "mass::ratio", "m_r", given.forced_options,
                                   <<RefTokenWith(given.target, given.kin, given.opts)>>) IN
       /\ registry' = r.registry
       /\ outcome' = IF r.thrown.error = "none" THEN Done ELSE Failed("insert", r.thrown)
       /\ pc' = IF r.thrown.error = "none" THEN "set tau" ELSE "failed"
    /\ UNCHANGED <<parameters, kinematics, instances, given>>

\* p["mass::tau"] = 2: the two lepton masses differ
OverrideSetTau ==
    /\ pc = "set tau"
    /\ parameters' = [parameters EXCEPT ![1]["mass::tau"] = Num(2)]
    /\ pc' = "make"
    /\ UNCHANGED <<registry, kinematics, instances, outcome, given>>

\* observables["mass::ratio"]->make(p, k, options)
OverrideMake ==
    /\ pc = "make"
    /\ LET r == make(registry, registry["mass::ratio"], 1, CallerStore, given.options,
                     {"mass::ratio"}) IN
       IF IsThrown(r)
       THEN /\ outcome' = Failed("make", r)
            /\ pc' = "failed"
            /\ UNCHANGED instances
       ELSE /\ instances' = [instances EXCEPT ![1] = r]
            /\ outcome' = Done
            /\ pc' = "evaluate"
    /\ UNCHANGED <<registry, parameters, kinematics, given>>

\* ->evaluate()
OverrideEvaluate ==
    /\ pc = "evaluate"
    /\ LET r == evaluate(parameters, kinematics, instances[1]) IN
       /\ outcome' = IF IsThrown(r) THEN Failed("evaluate", r) ELSE Returned("evaluate", r)
       /\ pc' = IF IsThrown(r) THEN "failed" ELSE "evaluated"
    /\ UNCHANGED <<registry, parameters, kinematics, instances, given>>

NextOverride ==
    \/ OverrideInsert
    \/ OverrideSetTau
    \/ OverrideMake
    \/ OverrideEvaluate

SpecOverride == InitOverride /\ [][NextOverride]_vars

----------------------------------------------------------------------------
(* Threads that call make() on the entries of one registry at the same time. *)
(* Each thread owns the slot of the pointer it receives; given[t] is the     *)
(* frame of its call, pc[t] the line of make it is at.                       *)

\* the registry was loaded before the threads start: mass::ratio from d, then
\* mass::scaled, which refers to it
InitConcurrent ==
    /\ \E d \in {Definition("mass::ratio", NoOptions, RatioText),
                 Definition("mass::ratio", [l |-> "tau"], DecayText)} :
          LET first == Observables_insert([n \in ExpressionNames |-> NoEntry], d.name, "m_r",
                                          d.forced_options, d.input)
          IN  registry = Observables_insert(first.registry, "mass::scaled", "m_s", NoOptions,
                                            ScaledText).registry
    /\ parameters = [s \in Stores |->
                        IF s = 1 THEN Defaults
                        ELSE [x \in ParameterNames |-> IF x = "mass::mu" THEN Num(0) ELSE Num(1)]]
    /\ kinematics = [s \in KinematicsStores |-> IF s = CallerStore THEN CallerKinematics ELSE NoStore]
    /\ instances = [i \in Slots |-> NoInstance]
    /\ outcome = Done
    /\ given = [t \in Slots |-> [name |-> "none"]]
    /\ pc = [t \in Slots |-> "idle"]

\* thread t calls observables[name]->make(p, k, o); the pointer it held is released
ConcurrentCall(t, name, p, o) ==
    /\ pc[t] = "idle"
    /\ name \in Registered
    /\ given' = [given EXCEPT ![t] = [name |-> name, p |-> p, o |-> o]]
    /\ instances' = [instances EXCEPT ![t] = NoInstance]
    /\ pc' = [pc EXCEPT ![t] = "empty check"]
    /\ UNCHANGED <<registry, parameters, kinematics, outcome>>

\* if (_expression.empty()) throw InternalError(...)
ConcurrentCheck(t) ==
    /\ pc[t] = "empty check"
    /\ IF empty(registry[given[t].name].expression)
       THEN /\ given' = [given EXCEPT ![t].result =
                            Thrown("InternalError",
                                   "Empty expression encountered in ExpressionObservableEntry::make!")]
            /\ pc' = [pc EXCEPT ![t] = "return"]
       ELSE /\ given' = given
            /\ pc' = [pc EXCEPT ![t] = "options"]
    /\ UNCHANGED <<registry, parameters, kinematics, instances, outcome>>

\* a make that keeps the merged options in the entry
ConcurrentMerge_caching(t) ==
    /\ pc[t] = "options"
    /\ LET merged == Merge(given[t].o, registry[given[t].name].forced_options) IN
       /\ given' = [given EXCEPT ![t] = [name |-> @.name, p |-> @.p, o |-> @.o, options |-> merged]]
       /\ registry' = [registry EXCEPT ![given[t].name].forced_options = merged]
    /\ pc' = [pc EXCEPT ![t] = "construct"]
    /\ UNCHANGED <<parameters, kinematics, instances, outcome>>

\* options + _forced_options
ConcurrentMerge(t) ==
    /\ pc[t] = "options"
    /\ given' = [given EXCEPT ![t] =
                    [name |-> @.name, p |-> @.p, o |-> @.o,
                     options |-> Merge(@.o, registry[@.name].forced_options)]]
    /\ pc' = [pc EXCEPT ![t] = "construct"]
    /\ UNCHANGED <<registry, parameters, kinematics, instances, outcome>>

\* new ExpressionObservable(_name, parameters, kinematics, options + _forced_options, _expression)
ConcurrentConstruct(t) ==
    /\ pc[t] = "construct"
    /\ LET f == given[t]
           r == ExpressionObservable(registry, registry[f.name].name, f.p, CallerStore,
                                     f.options, registry[f.name].expression, {f.name})
       IN  given' = [given EXCEPT ![t] =
                        [name |-> f.name, p |-> f.p, o |-> f.o, options |-> f.options,
                         result |-> r]]
    /\ pc' = [pc EXCEPT ![t] = "return"]
    /\ UNCHANGED <<registry, parameters, kinematics, instances, outcome>>

\* return ObservablePtr(...), or the failure leaves make
ConcurrentReturn(t) ==
    /\ pc[t] = "return"
    /\ IF IsThrown(given[t].result)
       THEN /\ outcome' = Failed("make", given[t].result)
            /\ UNCHANGED instances
       ELSE /\ instances' = [instances EXCEPT ![t] = given[t].result]
            /\ outcome' = Returned("make", "nothing")
    /\ pc' = [pc EXCEPT ![t] = "idle"]
    /\ UNCHANGED <<registry, parameters, kinematics, given>>

\* evaluate() of an observable a make has returned, while other makes run
ConcurrentEvaluate(i) ==
    /\ i \in Live
    /\ LET v == evaluate(parameters, kinematics, instances[i]) IN
       outcome' = IF IsThrown(v) THEN Failed("evaluate", v) ELSE Returned("evaluate", v)
    /\ UNCHANGED <<registry, parameters, kinematics, instances, given, pc>>

NextConcurrent ==
    \/ \E t \in Slots, name \in ExpressionNames, p \in Stores, o \in CallerOptions :
          ConcurrentCall(t, name, p, o)
    \/ \E t \in Slots : ConcurrentCheck(t)
    \/ \E t \in Slots : ConcurrentMerge(t)
    \/ \E t \in Slots : ConcurrentConstruct(t)
    \/ \E t \in Slots : ConcurrentReturn(t)
    \/ \E i \in Slots : ConcurrentEvaluate(i)

SpecConcurrent == InitConcurrent /\ [][NextConcurrent]_vars

----------------------------------------------------------------------------
(* cmd_find_mode of the command line interface.  given is the frame of the   *)
(* call: the arguments, the total chi^2 of the posterior at each point, the  *)
(* locals, and the results of the optimisations so far; outcome is what is   *)
(* printed.  analysis.optimize and eos.GoodnessOfFit belong to the eos       *)
(* module: where an optimisation ends is any point.                          *)

\* sys.float_info.max: above every total chi^2
FloatMax == MaxChiSquare + 1

\* None, and a local that no assignment has bound
None == [none |-> TRUE]

InitFindMode ==
    /\ registry = [n \in ExpressionNames |-> NoEntry]
    /\ parameters = [s \in Stores |-> NoStore]
    /\ kinematics = [s \in KinematicsStores |-> NoStore]
    /\ instances = [i \in Slots |-> NoInstance]
    /\ outcome = Done
    /\ \E point \in BOOLEAN, init_file \in BOOLEAN, points \in 0 .. MaxRuns,
          chi_square \in [0 .. MaxFitPoint -> 0 .. MaxChiSquare] :
          given = [point |-> point, init_file |-> init_file, points |-> points,
                   chi_square |-> chi_square,
                   min_chi2 |-> FloatMax, gof |-> None, bfp |-> None,
                   i |-> 0, local_bfp |-> None, local_gof |-> None,   \* i, _bfp, _gof: unbound
                   optimized |-> <<>>]
    /\ pc = "arguments"

\* if args.point and args.init_file: raise ValueError(...)
FindModeArguments ==
    /\ pc = "arguments"
    /\ IF given.point /\ given.init_file
       THEN /\ outcome' = Failed("find-mode",
                                 Thrown("ValueError", "The -p and -i options are mutually exclusive."))
            /\ pc' = "raised"
       ELSE /\ outcome' = outcome
            /\ pc' = "optimize"
    /\ UNCHANGED <<registry, parameters, kinematics, instances, given>>

\* the optimisations that remain: one from args.point, else range(args.points)
FindModeRemaining == given.i < (IF given.point THEN 1 ELSE given.points)

\* _bfp = analysis.optimize(starting_point); _gof = eos.GoodnessOfFit(...);
\* _chi2 = _gof.total_chi_square(); if _chi2 < min_chi2: gof, bfp, min_chi2 = ...
\* x is the point the optimisation ends at
FindModeOptimize(x) ==
    /\ pc = "optimize"
    /\ FindModeRemaining
    /\ LET local_bfp == [point |-> x]
           local_gof == [total_chi_square |-> given.chi_square[x]]
           local_chi2 == local_gof.total_chi_square
           better == local_chi2 < given.min_chi2
       IN  given' = [given EXCEPT
                        !.i = @ + 1,
                        !.local_bfp = local_bfp,
                        !.local_gof = local_gof,
                        !.gof = IF better THEN local_gof ELSE @,
                        !.bfp = IF better THEN local_bfp ELSE @,
                        !.min_chi2 = IF better THEN local_chi2 ELSE @,
                        !.optimized = Append(@, [point |-> x, chi2 |-> local_chi2])]
    /\ UNCHANGED <<registry, parameters, kinematics, instances, outcome, pc>>

\* print('best-fit point:') ... _bfp.point ...; print('total chi^2 = ...', min_chi2);
\* print('p value = ...', gof.total_degrees_of_freedom(), gof.total_chi_square())
FindModePrint ==
    /\ pc = "optimize"
    /\ ~FindModeRemaining
    /\ IF given.local_bfp = None
       THEN /\ outcome' = Failed("find-mode", Thrown("NameError", "_bfp"))
            /\ pc' = "raised"
       ELSE /\ outcome' = Returned("find-mode",
                                   [best_fit_point |-> given.local_bfp.point,
                                    total_chi2 |-> given.min_chi2,
                                    p_value_chi2 |-> given.gof.total_chi_square])
            /\ pc' = "printed"
    /\ UNCHANGED <<registry, parameters, kinematics, instances, given>>

NextFindMode ==
    \/ FindModeArguments
    \/ \E x \in 0 .. MaxFitPoint : FindModeOptimize(x)
    \/ FindModePrint

SpecFindMode == InitFindMode /\ [][NextFindMode]_vars

----------------------------------------------------------------------------
(* Properties *)

\* E.evaluate() of the live object in slot i, in the current state
Value(i) == evaluate(parameters, kinematics, instances[i])

\* the live objects a clone call returned: only clones own a Kinematics store of
\* their own
IsClone(i) == i \in Live /\ instances[i].kinematics # CallerStore

\* C1: clone independence.  For an observable E and a clone E' of it bound to
\* another parameter set, whatever is done to the parameter set of the one
\* leaves evaluate() of the other as it was: a step that leaves the objects and
\* the parameter set of one of them alone leaves its value alone.
C1_CloneIndependence ==
    [][\A i \in Live, j \in Live :
          ( /\ i # j
            /\ IsClone(i) \/ IsClone(j)
            /\ instances[i].parameters # instances[j].parameters
            /\ instances' = instances
            /\ parameters'[instances[j].parameters] = parameters[instances[j].parameters] )
          => evaluate(parameters', kinematics', instances'[j]) = Value(j)]_vars

\* an observable and its clone on another parameter set evaluate differently:
\* one of the two sets was changed after the clone
C1_Witness ==
    \E i \in Live, j \in Live :
        /\ IsClone(j) /\ ~IsClone(i)
        /\ instances[i].name = instances[j].name
        /\ instances[i].options = instances[j].options
        /\ instances[i].parameters # instances[j].parameters
        /\ Value(i) # Value(j)

\* C4: a failed Observables::insert leaves the registry as it was, and after a
\* ParsingError the insertion of a well-formed definition succeeds and registers
\* the entry of that definition.
C4_FailedInsertLeavesRegistry ==
    [][ /\ (outcome'.op = "insert" /\ outcome'.error # "none") => registry' = registry
        /\ (outcome.op = "insert" /\ outcome.error = "ParsingError") =>
              \A d \in Definitions :
                 (Parse(d.input).ok /\ Insert(d.name, d.forced_options, d.input)) =>
                    /\ outcome' = Done
                    /\ registry'[d.name].kind = "expression"
                    /\ registry'[d.name].expression = Parse(d.input).expr
                    /\ registry'[d.name].forced_options = d.forced_options ]_vars

\* the name whose insertion failed is registered by the next insertion
C4_Witness ==
    /\ outcome.op = "insert"
    /\ outcome.error = "ParsingError"
    /\ outcome.result = "mass::ratio"
    /\ registry["mass::ratio"] = NoEntry

ViaEntry(name, p, o) == make(registry, registry[name], p, CallerStore, o, {name})

ViaRegistry(name, p, o) == Observable_make(registry, name, p, CallerStore, o, {})

RECURSIVE ConcreteLeaves(_)

\* the concrete observables at the leaves of a bound tree
ConcreteLeaves(e) ==
    CASE e.type = "binary" -> ConcreteLeaves(e.lhs) \cup ConcreteLeaves(e.rhs)
      [] e.type = "observable" -> IF e.handle.kind = "concrete" THEN {e.handle} ELSE {}
      [] OTHER -> {}

\* C6: make(parameters, kinematics, options) binds the expression under the
\* options in which a key of both the caller's and the forced options has the
\* forced value and a key of only one of them keeps its value.
C6_ForcedOptionsWin ==
    [][\A name \in Registered, p \in Stores, o \in CallerOptions :
          (Make(name, p, CallerStore, o) /\ instances' # instances) =>
             LET made == instances'[FreeSlot]
                 forced == registry[name].forced_options
             IN  /\ DOMAIN made.options = DOMAIN o \cup DOMAIN forced
                 /\ \A key \in DOMAIN made.options :
                       made.options[key] =
                          IF key \in DOMAIN forced THEN forced[key] ELSE o[key]
                 /\ \A h \in ConcreteLeaves(made.expression) : h.options = made.options
       ]_vars

\* an observable made with l forced to tau although the caller asked for mu, and
\* with the caller's model: its decay reads the tau mass
C6_Witness ==
    \E i \in Live :
        /\ ~IsClone(i)
        /\ instances[i].options = [l |-> "tau", model |-> "CKM"]
        /\ ConcreteLeaves(instances[i].expression) # {}

\* C7: a constructor given an empty tree fails with the InternalError of its own
\* check, raised before a visitor runs on the tree, and no observable and no
\* entry holds an empty tree.
C7_EmptyTreeRejected ==
    /\ \A i \in Live : ~empty(instances[i].expression)
    /\ \A name \in Registered : ~empty(registry[name].expression)
    /\ outcome.op = "ExpressionObservable" =>
          /\ outcome.error = "InternalError"
          /\ outcome.result = "Empty expression encountered in ExpressionObservable!"
    /\ outcome.op = "ExpressionObservableEntry" =>
          /\ outcome.error = "InternalError"
          /\ outcome.result = "Empty expression encountered in ExpressionObservableEntry!"

\* the constructor of ExpressionObservable was given an empty tree
C7_Witness ==
    /\ outcome.op = "ExpressionObservable"
    /\ outcome.error = "InternalError"

\* C8: evaluate() changes neither the bound tree nor the parameters, and as long
\* as the parameters an observable reads are not changed, evaluate() returns the
\* same result.
C8_RepeatedEvaluation ==
    [][ /\ outcome'.op = "evaluate" =>
              /\ instances' = instances
              /\ parameters' = parameters
              /\ kinematics' = kinematics
        /\ \A i \in Live :
              (\A x \in Underlying(instances[i].expression) : parameters'[x] = parameters[x])
              => /\ instances'[i] = instances[i]
                 /\ evaluate(parameters', kinematics', instances'[i]) = Value(i) ]_vars

\* evaluate() returned while another observable and a changed parameter set exist
C8_Witness ==
    /\ outcome.op = "evaluate"
    /\ outcome.error = "none"
    /\ Cardinality(Live) = MaxInstances
    /\ \E x \in Allocated(parameters) : parameters[x] # Defaults

\* C9 as stated: clone() binds the clone against the very parameters and
\* kinematics of the original.
C9_CloneReusesContext ==
    [][\A i \in Live :
          (Clone(i) /\ instances' # instances) =>
             /\ instances'[FreeSlot].parameters = instances[i].parameters
             /\ instances'[FreeSlot].kinematics = instances[i].kinematics]_vars

\* C9, amended: clone() binds the clone against fresh copies of the parameters and
\* of the kinematics of the original, holding the values the original's have at
\* the time of the call, and against the options of the original; the original's
\* parameters and kinematics stay with the original.
C9_CloneCopiesContext ==
    [][\A i \in Live :
          (Clone(i) /\ instances' # instances) =>
             LET original == instances[i]
                 copy == instances'[FreeSlot]
             IN  /\ copy.parameters \notin Allocated(parameters)
                 /\ copy.kinematics \notin Allocated(kinematics)
                 /\ parameters'[copy.parameters] = parameters[original.parameters]
                 /\ kinematics'[copy.kinematics] = kinematics[original.kinematics]
                 /\ copy.options = original.options
                 /\ copy.name = original.name
                 /\ Underlying(copy.expression) = {copy.parameters}
                 /\ instances'[i] = original
                 /\ evaluate(parameters', kinematics', copy) = Value(i)]_vars

\* a clone on a parameter set of its own, made by clone()
C9_Witness ==
    \E i \in Live, j \in Live :
        /\ IsClone(j) /\ ~IsClone(i)
        /\ instances[j].name = instances[i].name
        /\ instances[j].parameters # instances[i].parameters
        /\ Cardinality(Allocated(parameters)) = MaxStores
        /\ outcome = Done
        /\ parameters[instances[j].parameters] = parameters[instances[i].parameters]
        /\ parameters[instances[i].parameters] # Defaults

RECURSIVE LongDivision(_, _, _)

\* quotient and remainder of n * 10^digits by d, one decimal digit at a time
LongDivision(n, d, digits) ==
    IF digits = 0 THEN [q |-> n \div d, r |-> n % d]
    ELSE LET x == LongDivision(n, d, digits - 1)
         IN  [q |-> 10 * x.q + (10 * x.r) \div d, r |-> (10 * x.r) % d]

\* a finite value x >= 0 in units of 1e-9, rounded down
Nano(x) == LongDivision(x.n, x.d, 9).q

\* TEST_CHECK_NEARLY_EQUAL(obs->evaluate(), 0.059464662, 10e-5), in units of 1e-9
ExpectedNano == 59464662

ToleranceNano == 100000

\* C2: the observable made from "<<mass::mu>> op <<mass::tau>>" evaluates to op
\* applied to the values of mass::mu and mass::tau in p; for "/" that is the
\* quotient of the two, and for mass::mu = 0.105658 and mass::tau = 1.77682 it is
\* 0.059464662 within the tolerance of the test.
C2_QuotientValue ==
    /\ pc # "failed"
    /\ pc \in {"Observable::make", "evaluate again", "passed"} =>
          LET A == parameters[1]["mass::mu"]
              B == parameters[1]["mass::tau"]
          IN  /\ A = given.mu /\ B = given.tau
              /\ instances[1].expression.type = "binary"
              /\ instances[1].expression.op = given.op
              /\ outcome.op = "evaluate"
              /\ outcome.result = Apply(given.op, A, B)
              /\ (given.op = "/" /\ B # Num(0)) => Mul(outcome.result, B) = A
              /\ (given.op = "/" /\ B = Num(0)) => ~IsFinite(outcome.result)
              /\ (given.op = "*" /\ B = Num(1)) => outcome.result = A
              /\ (given.op = "+" /\ B = Num(0)) => outcome.result = A
              /\ (given.op = "-" /\ B = A) => outcome.result = Num(0)
              /\ (given.op = "/" /\ A = MuMass /\ B = TauMass) =>
                    Abs(Nano(outcome.result) - ExpectedNano) < ToleranceNano

\* the run of the test with its own masses passed
C2_Witness ==
    /\ pc = "passed"
    /\ given = [op |-> "/", mu |-> MuMass, tau |-> TauMass]
    /\ outcome.result = Rat(52829, 888410)

\* two operator tokens with no operand between them
AdjacentOperators(ts) ==
    \E i \in 1..(Len(ts) - 1) : ts[i].t = "op" /\ ts[i + 1].t = "op"

\* C3: the insertion of a text with two adjacent operator tokens fails with a
\* ParsingError and registers nothing.
C3_AdjacentOperatorsRejected ==
    AdjacentOperators(given) =>
       /\ Registered = {}
       /\ \/ outcome = Done
          \/ outcome.op = "insert" /\ outcome.error = "ParsingError"

\* the insertion of "<<mass::mu>> /* <<mass::tau>>" failed
C3_Witness ==
    /\ given = BadRatioText
    /\ outcome.op = "insert"
    /\ outcome.error = "ParsingError"

StrictlyAscending(listing) ==
    \A i \in DOMAIN listing, j \in DOMAIN listing : i < j => NameLess(listing[i], listing[j])

\* C10: the names an entry lists from begin_kinematic_variables() to
\* end_kinematic_variables() are the names the collector returned for the
\* expression when the entry was constructed, each once, in ascending order.
C10_KinematicNamesSorted ==
    [][ /\ \A n \in ExpressionNames :
              registry'[n] # registry[n] =>
                 LET listing == kinematic_variables(registry'[n]) IN
                 /\ {listing[i] : i \in DOMAIN listing} =
                       ExpressionKinematicReader(registry, registry'[n].expression)
                 /\ StrictlyAscending(listing)
        /\ outcome'.op = "kinematic_variables" =>
              /\ StrictlyAscending(outcome'.result)
              /\ \E n \in Registered : outcome'.result = registry[n].kinematics_names ]_vars

\* the listing of an expression that names s_min and s_max before s
C10_Witness ==
    /\ outcome.op = "kinematic_variables"
    /\ outcome.result = <<"s", "s_max", "s_min">>
    /\ \E n \in Registered :
          /\ registry[n].expression.type = "binary"
          /\ registry[n].expression.lhs.name = "Lb::BR"
          /\ registry[n].expression.rhs.name = "Lb::dBR"

\* the kinematic variables a primitive observable declares
Declared(name) == {ConcreteKinematics[name][i] : i \in DOMAIN ConcreteKinematics[name]}

Listed(this) == {kinematic_variables(this)[i] : i \in DOMAIN kinematic_variables(this)}

\* C11: the names collected for an expression over two primitive observables are
\* the union of the names the two declare, {s, theta} for observables of s and
\* of theta; an operator contributes the union of its children, a constant
\* nothing.
C11_KinematicNamesComplete ==
    \A n \in Registered :
        LET e == registry[n].expression IN
        /\ e.type = "constant" => Listed(registry[n]) = {}
        /\ (e.type = "name" /\ e.name \in ConcreteNames) =>
              Listed(registry[n]) = Declared(e.name)
        /\ (e.type = "binary" /\ e.lhs.type = "name" /\ e.rhs.type = "name"
               /\ e.lhs.name \in ConcreteNames /\ e.rhs.name \in ConcreteNames) =>
              /\ Listed(registry[n]) = Declared(e.lhs.name) \cup Declared(e.rhs.name)
              /\ (Declared(e.lhs.name) = {"s"} /\ Declared(e.rhs.name) = {"theta"}) =>
                    kinematic_variables(registry[n]) = <<"s", "theta">>
        /\ (e.type = "binary" /\ e.lhs.type = "name" /\ e.rhs.type = "constant"
               /\ e.lhs.name \in ConcreteNames) =>
              Listed(registry[n]) = Declared(e.lhs.name)
        /\ (e.type = "binary" /\ e.lhs.type = "constant" /\ e.rhs.type = "name"
               /\ e.rhs.name \in ConcreteNames) =>
              Listed(registry[n]) = Declared(e.rhs.name)
        /\ (e.type = "binary" /\ e.lhs.type = "constant" /\ e.rhs.type = "constant") =>
              Listed(registry[n]) = {}

\* an entry over an observable of s and an observable of theta lists both
C11_Witness ==
    \E n \in Registered :
        /\ registry[n].expression.type = "binary"
        /\ registry[n].expression.lhs.type = "name"
        /\ registry[n].expression.lhs.name = "Lb::dBR"
        /\ registry[n].expression.rhs.type = "name"
        /\ registry[n].expression.rhs.name = "Lb::A_theta"
        /\ kinematic_variables(registry[n]) = <<"s", "theta">>

RECURSIVE References(_)

\* the names an unbound tree refers to
References(e) ==
    CASE e.type = "binary" -> References(e.lhs) \cup References(e.rhs)
      [] e.type = "name" -> {e.name}
      [] OTHER -> {}

\* a name the registry resolves to nothing
Unresolvable(R, name) ==
    /\ ~IsExpressionEntry(R, name)
    /\ name \notin ConcreteNames
    /\ name \notin ParameterNames

\* C12: make on an entry whose expression refers to a name the registry does not
\* resolve fails with the failure of the resolution of that name, as it is, and
\* makes no observable.
C12_UnresolvedReferenceFails ==
    [][\A name \in Registered, p \in Stores, o \in CallerOptions :
          LET unresolved == {x \in References(registry[name].expression) :
                                Unresolvable(registry, x)}
          IN  (Make(name, p, CallerStore, o) /\ unresolved # {}) =>
                 /\ instances' = instances
                 /\ \E x \in unresolved :
                       outcome' = Failed("make", Thrown("UnknownObservableError", x))
                 /\ make(registry, registry[name], p, CallerStore, o, {name}) =
                       Observable_make(registry, name, p, CallerStore, o, {})
       ]_vars

\* make on mass::scaled failed: mass::ratio, which it refers to, is not registered
C12_Witness ==
    /\ outcome = Failed("make", Thrown("UnknownObservableError", "mass::ratio"))
    /\ "mass::scaled" \in Registered
    /\ "mass::ratio" \notin Registered
    /\ References(registry["mass::scaled"].expression) = {"mass::ratio"}

\* C13: "*" and "/" bind tighter than "+" and "-": the observable made from
\* "a + b * c" evaluates to a + (b * c), 7 for "1 + 2 * 3"; operators of one
\* level associate to the left.
C13_Precedence ==
    /\ pc # "failed"
    /\ pc = "evaluated" =>
          LET a == Num(given.a)
              b == Num(given.b)
              c == Num(given.c)
          IN  /\ outcome.op = "evaluate"
              /\ outcome.result =
                    IF given.op1 \in {"+", "-"} /\ given.op2 \in {"*", "/"}
                    THEN Apply(given.op1, a, Apply(given.op2, b, c))
                    ELSE Apply(given.op2, Apply(given.op1, a, b), c)
              /\ (given.op1 = "+" /\ given.op2 = "*") =>
                    outcome.result = Num(given.a + given.b * given.c)
              /\ given = [a |-> 1, op1 |-> "+", b |-> 2, op2 |-> "*", c |-> 3] =>
                    outcome.result = Num(7)

\* "1 + 2 * 3" was evaluated
C13_Witness ==
    /\ pc = "evaluated"
    /\ given = [a |-> 1, op1 |-> "+", b |-> 2, op2 |-> "*", c |-> 3]
    /\ outcome.result = Num(7)

\* C14: an observable X made from an entry that refers to another expression
\* entry Y holds, at that leaf, the ExpressionObservable that Y's make returns
\* for the context of X, and X evaluates to its operator applied to what the
\* leaves evaluate to, Y's evaluate() among them.
C14_TransitiveComposition ==
    \A i \in Live :
        LET X == instances[i]
            e == X.expression
        IN  (e.type = "binary" /\ e.lhs.type = "observable"
               /\ e.lhs.handle.kind = "expression") =>
               LET Y == e.lhs.handle IN
               /\ IsExpressionEntry(registry, Y.name)
               /\ Y.name \in References(registry[X.name].expression)
               /\ Y.parameters = X.parameters
               /\ ~IsClone(i) =>
                     Y = make(registry, registry[Y.name], X.parameters, X.kinematics,
                              X.options, {Y.name})
               /\ Value(i) =
                     LET y == evaluate(parameters, kinematics, Y)
                         r == ExpressionEvaluator(parameters, kinematics, e.rhs)
                     IN  IF IsThrown(y) THEN y ELSE IF IsThrown(r) THEN r
                         ELSE Apply(e.op, y, r)

\* mass::scaled, twice mass::ratio, made while mass::ratio is 1/1 and evaluating to 2
C14_Witness ==
    \E i \in Live :
        /\ ~IsClone(i)
        /\ instances[i].name = "mass::scaled"
        /\ instances[i].expression.type = "binary"
        /\ instances[i].expression.lhs.type = "observable"
        /\ instances[i].expression.lhs.handle.kind = "expression"
        /\ instances[i].expression.lhs.handle.name = "mass::ratio"
        /\ evaluate(parameters, kinematics, instances[i].expression.lhs.handle) = Num(1)
        /\ Value(i) = Num(2)

\* C15: the observable make(p, k, o) returns on the entry n with forced options f
\* reports name() = n, parameters() = p, kinematics() = k and options() = o + f;
\* the observable clone(p') returns reports the name() and the options() of the
\* original and parameters() = p'.
C15_ReportsContext ==
    [][ /\ \A n \in Registered, p \in Stores, o \in CallerOptions :
              (Make(n, p, CallerStore, o) /\ instances' # instances) =>
                 LET made == instances'[FreeSlot] IN
                 /\ ExpressionObservable_name(made) = n
                 /\ ExpressionObservable_parameters(made) = p
                 /\ ExpressionObservable_kinematics(made) = CallerStore
                 /\ ExpressionObservable_options(made) = Merge(o, registry[n].forced_options)
        /\ \A i \in Live, p \in Stores :
              (CloneParameters(i, p) /\ instances' # instances) =>
                 LET copy == instances'[FreeSlot] IN
                 /\ ExpressionObservable_name(copy) = ExpressionObservable_name(instances[i])
                 /\ ExpressionObservable_options(copy) =
                       ExpressionObservable_options(instances[i])
                 /\ ExpressionObservable_parameters(copy) = p
                 /\ instances'[i] = instances[i] ]_vars

\* an observable made with forced and caller's options, and a clone of it that
\* reports another parameter set
C15_Witness ==
    \E i \in Live, j \in Live :
        /\ ~IsClone(i) /\ IsClone(j)
        /\ outcome = Returned("clone(parameters)", "nothing")
        /\ ExpressionObservable_name(instances[j]) = ExpressionObservable_name(instances[i])
        /\ ExpressionObservable_options(instances[i]) = [l |-> "tau", model |-> "CKM"]
        /\ ExpressionObservable_options(instances[j]) = [l |-> "tau", model |-> "CKM"]
        /\ ExpressionObservable_parameters(instances[i]) = 1
        /\ ExpressionObservable_parameters(instances[j]) = 2

RECURSIVE IsUnbound(_), IsBound(_)

\* no bound leaf is reachable from the root
IsUnbound(e) ==
    CASE e.type = "binary" -> IsUnbound(e.lhs) /\ IsUnbound(e.rhs)
      [] e.type = "constant" -> TRUE
      [] e.type = "name" -> TRUE
      [] OTHER -> FALSE

\* every leaf is a constant or a bound leaf, and so down the observables bound
IsBound(e) ==
    CASE e.type = "binary" -> IsBound(e.lhs) /\ IsBound(e.rhs)
      [] e.type = "constant" -> TRUE
      [] e.type = "observable" ->
           e.handle.kind = "expression" => IsBound(e.handle.expression)
      [] OTHER -> FALSE

\* C16: the tree of every entry is unbound and the tree of every observable that
\* make(), clone() or clone(parameters) returned is bound; no tree held by either
\* has leaves of both kinds.
C16_BoundUnbound ==
    /\ \A n \in Registered :
          IsUnbound(registry[n].expression)
    /\ \A i \in Live :
          /\ IsBound(instances[i].expression)
          /\ References(instances[i].expression) = {}

\* an entry over two references, an observable made from it and a clone of it
C16_Witness ==
    \E i \in Live, j \in Live :
        /\ ~IsClone(i) /\ IsClone(j)
        /\ instances[i].name = instances[j].name
        /\ registry[instances[i].name].expression.type = "binary"
        /\ References(registry[instances[i].name].expression) = {"Lb::BR", "Lb::dBR"}
        /\ instances[i].expression.lhs.type = "observable"
        /\ instances[j].expression.rhs.type = "observable"
        /\ instances[j].expression.rhs.handle.kinematics # CallerStore

RECURSIVE Handles(_)

\* the expression observables bound in a tree, at any depth
Handles(e) ==
    CASE e.type = "binary" -> Handles(e.lhs) \cup Handles(e.rhs)
      [] e.type = "observable" ->
           IF e.handle.kind = "expression"
           THEN {e.handle} \cup Handles(e.handle.expression)
           ELSE {}
      [] OTHER -> {}

\* C17: every observable that make, clone() or clone(parameters) returned, and
\* every expression observable bound in its tree, holds a non-empty tree, and
\* evaluate() never fails with the InternalError of an empty expression.
C17_EvaluateNeverEmpty ==
    /\ \A i \in Live :
          \A h \in {instances[i]} \cup Handles(instances[i].expression) :
             /\ ~empty(h.expression)
             /\ ~IsThrown(evaluate(parameters, kinematics, h))
    /\ outcome.op = "evaluate" => outcome.error = "none"

\* evaluate() returned while a clone that binds another expression observable is live
C17_Witness ==
    /\ outcome.op = "evaluate"
    /\ \E i \in Live :
          /\ IsClone(i)
          /\ Handles(instances[i].expression) # {}

\* C18: no call changes an entry once it is constructed: make, whether it returns
\* or fails, the iteration over the kinematic names and insert(stream) leave the
\* tree, the name, the forced options and the cached kinematic names as the
\* constructor set them; make does not collect the names again.
C18_EntryImmutable ==
    [][ /\ \A n \in Registered : registry'[n] = registry[n]
        /\ outcome'.op \in {"make", "kinematic_variables", "insert(stream)"} =>
              registry' = registry
        /\ \A n \in Registered, p \in Stores, o \in CallerOptions :
              Make(n, p, CallerStore, o) =>
                 kinematic_variables(registry'[n]) = kinematic_variables(registry[n]) ]_vars

\* mass::scaled was registered before mass::ratio, which it refers to: its cached
\* names are not what the collector would return now, and it has been made and
\* described since
C18_Witness ==
    /\ Registered = ExpressionNames
    /\ kinematic_variables(registry["mass::scaled"]) = <<>>
    /\ ExpressionKinematicReader(registry, registry["mass::scaled"].expression) # {}
    /\ \E i \in Live : instances[i].name = "mass::scaled"
    /\ outcome.op = "insert(stream)"

\* the expression entries the entry n refers to
Edges(R, n) == {m \in References(R[n].expression) : IsExpressionEntry(R, m)}

RECURSIVE Reach(_, _)

\* the entries reachable from those of S along references, S included
Reach(R, S) ==
    LET T == S \cup UNION {Edges(R, n) : n \in S}
    IN  IF T = S THEN S ELSE Reach(R, T)

\* the reference graph reachable from n contains a cycle
HasCycle(R, n) == \E m \in Reach(R, {n}) : m \in Reach(R, Edges(R, m))

\* every reference of every entry reachable from n resolves
AllResolve(R, n) ==
    \A m \in Reach(R, {n}) : \A x \in References(R[m].expression) : ~Unresolvable(R, x)

Unbounded(r) == IsThrown(r) /\ r.error = "unbounded recursion"

C20_LocalOverridesWin ==
    /\ pc # "failed"
    /\ pc \in {"evaluate", "evaluated"} =>
          LET X == instances[1]
              h == X.expression.handle
              ambient == Merge(given.options, given.forced_options)
          IN  /\ X.expression.type = "observable"
              /\ h.kind = "concrete"
              /\ h.name = given.target
              /\ h.parameters = X.parameters
              /\ X.options = ambient
              /\ DOMAIN h.options = DOMAIN ambient \cup DOMAIN given.opts
              /\ \A key \in DOMAIN h.options :
                    h.options[key] =
                       IF key \in DOMAIN given.opts THEN given.opts[key] ELSE ambient[key]
              /\ \A x \in KinematicNames :
                    KinematicValue(kinematics, h, x) =
                       IF x \in DOMAIN given.kin THEN given.kin[x]
                       ELSE kinematics[X.kinematics][x]
    /\ pc = "evaluated" =>
          LET l == IF "l" \in DOMAIN given.opts THEN given.opts["l"]
                   ELSE IF "l" \in DOMAIN given.forced_options THEN given.forced_options["l"]
                   ELSE IF "l" \in DOMAIN given.options THEN given.options["l"]
                   ELSE "mu"
              mass == parameters[1][IF l = "tau" THEN "mass::tau" ELSE "mass::mu"]
              v == [x \in KinematicNames |->
                      IF x \in DOMAIN given.kin THEN given.kin[x] ELSE CallerKinematics[x]]
          IN  outcome.result =
                 CASE given.target = "Lb::dBR" -> Mul(mass, v["s"])
                   [] given.target = "Lb::A_theta" -> Mul(mass, v["theta"])
                   [] given.target = "Lb::BR" -> Mul(mass, Sub(v["s_max"], v["s_min"]))

\* "<<Lb::BR;l=mu>>[s_min=0]" under forced l=tau: the muon mass 1 times s_max - 0
C20_Witness ==
    /\ pc = "evaluated"
    /\ given.target = "Lb::BR"
    /\ DOMAIN given.kin = {"s_min"}
    /\ given.kin["s_min"] = Num(0)
    /\ given.opts = [l |-> "mu"]
    /\ given.forced_options = [l |-> "tau"]
    /\ given.options = [l |-> "mu", model |-> "CKM"]
    /\ outcome.result = Num(2)

RECURSIVE Divisions(_)

\* the Div nodes of a bound tree
Divisions(e) ==
    IF e.type # "binary" THEN {}
    ELSE Divisions(e.lhs) \cup Divisions(e.rhs) \cup (IF e.op = "/" THEN {e} ELSE {})

\* the Div nodes of e whose right child evaluates to zero
ZeroDivisions(e) ==
    {d \in Divisions(e) : ExpressionEvaluator(parameters, kinematics, d.rhs) = Num(0)}

C22_ConcurrentMakes ==
    [][ /\ registry' = registry
        /\ \A t \in Slots :
              (pc[t] = "return" /\ pc'[t] = "idle") =>
                 LET f == given[t]
                     alone == make(registry, registry[f.name], f.p, CallerStore, f.o, {f.name})
                 IN  /\ f.result = alone
                     /\ ~IsThrown(alone) => instances'[t] = alone ]_vars

\* both threads are in make on the same entry with different arguments, one
\* about to merge the options and the other about to return its observable
C22_Witness ==
    /\ pc[1] = "return"
    /\ pc[2] = "options"
    /\ given[1].name = given[2].name
    /\ given[1].o # given[2].o
    /\ given[1].p # given[2].p
    /\ ~IsThrown(given[1].result)
    /\ registry[given[1].name].forced_options # NoOptions

RECURSIVE Shape(_)

\* a bound tree without its contexts: the operators and constants in place, at
\* each leaf the name of the observable and, for an expression observable, the
\* shape of its own tree
Shape(e) ==
    CASE e.type = "binary" -> [op |-> e.op, lhs |-> Shape(e.lhs), rhs |-> Shape(e.rhs)]
      [] e.type = "observable" ->
           IF e.handle.kind = "expression"
           THEN [name |-> e.handle.name, tree |-> Shape(e.handle.expression)]
           ELSE [name |-> e.handle.name]
      [] OTHER -> e

\* C23: cloning preserves structure and value.  The observable that clone() or
\* clone(p') of E returns has E's name and a tree of E's shape: the same
\* operators and constants, and at every leaf an observable of the same name;
\* and when its parameters hold the values of E's parameters, as they do right
\* after clone() and after clone(p') with such a p', its evaluate() returns what
\* E.evaluate() returns.
C23_ClonePreserves ==
    [][\A i \in Live :
          ( /\ Clone(i) \/ \E p \in Stores : CloneParameters(i, p)
            /\ instances' # instances )
          => LET E == instances[i]
                 c == instances'[FreeSlot]
             IN  /\ c.name = E.name
                 /\ Shape(c.expression) = Shape(E.expression)
                 /\ parameters'[c.parameters] = parameters[E.parameters] =>
                       /\ evaluate(parameters', kinematics', c) = Value(i)
                       /\ evaluate(parameters', kinematics', instances'[i]) = Value(i)
                 /\ Clone(i) => parameters'[c.parameters] = parameters[E.parameters] ]_vars

\* an observable that binds another expression observable, and a clone of it on
\* another parameter set with the same values
C23_Witness ==
    \E i \in Live, j \in Live :
        /\ IsClone(j) /\ ~IsClone(i)
        /\ instances[i].name = instances[j].name
        /\ instances[i].options = instances[j].options
        /\ instances[i].parameters # instances[j].parameters
        /\ parameters[instances[i].parameters] = parameters[instances[j].parameters]
        /\ instances[j].expression.type = "binary"
        /\ Handles(instances[j].expression) # {}
        /\ Shape(instances[j].expression) = Shape(instances[i].expression)
        /\ Shape(instances[j].expression.lhs) # Shape(instances[j].expression.rhs)
        /\ Value(i) = Value(j)

\* the least total chi^2 of the optimisations that ran
MinimalChiSquare ==
    CHOOSE c \in 0 .. MaxChiSquare :
        /\ \E r \in DOMAIN given.optimized : given.optimized[r].chi2 = c
        /\ \A r \in DOMAIN given.optimized : given.optimized[r].chi2 >= c

\* C24: find-mode reports a consistent optimum.  After the optimisations from
\* every starting point, the printed best-fit point, the printed total chi^2
\* and the chi^2 of the goodness of fit behind the p value are those of one
\* optimisation, and its total chi^2 is the least of all that ran.
C24_ConsistentOptimum ==
    pc = "printed" =>
        \E r \in DOMAIN given.optimized :
            /\ given.optimized[r].chi2 = MinimalChiSquare
            /\ outcome.result.best_fit_point = given.optimized[r].point
            /\ outcome.result.total_chi2 = given.optimized[r].chi2
            /\ outcome.result.p_value_chi2 = given.optimized[r].chi2

\* C24, what find-mode does print: the least total chi^2, the p value of the
\* optimisation that reached it, and the point of the last optimisation
C24_PrintsLastPoint ==
    pc = "printed" =>
        /\ given.optimized # <<>>
        /\ outcome.result.total_chi2 = MinimalChiSquare
        /\ outcome.result.p_value_chi2 = MinimalChiSquare
        /\ outcome.result.best_fit_point = given.optimized[Len(given.optimized)].point

\* two optimisations ran, the first reached the lower chi^2 at another point
\* than the second, and the result was printed
C24_Witness ==
    /\ pc = "printed"
    /\ Len(given.optimized) = 2
    /\ given.optimized[1].chi2 < given.optimized[2].chi2
    /\ given.optimized[1].point # given.optimized[2].point

====
